---------------------------- MODULE Spec2Model ----------------------------
(***************************************************************************)
(* A model of tinybufr's data-section reader (src/src/reader.rs), of the   *)
(* descriptor resolver that builds its input (src/src/descriptor.rs) and   *)
(* of the event counters its integration tests keep                        *)
(* (src/tests/common/mod.rs).                                              *)
(*                                                                         *)
(* Number representation.  TLC's integers are 32-bit signed, so:           *)
(*   - an i32 is the integer itself (MinI32..MaxI32);                      *)
(*   - a u32 is held as its 32-bit pattern, i.e. as the i32 with the same  *)
(*     bits: u < 2^31 is u, and u >= 2^31 is u - 2^32 (0xFFFFFFFF is -1).  *)
(*     The casts `as i32` / `as u32` between the two keep the bits, so     *)
(*     they keep the representation; every operator that depends on the    *)
(*     unsigned reading of a pattern says so.                              *)
(***************************************************************************)
EXTENDS Integers, Sequences, FiniteSets, TLC

\* ------------------------------------------------------------------------
\* Bounds of the model
\* ------------------------------------------------------------------------

\* Largest subset count (DataSpec.number_of_subsets) drawn by Init.
MaxSubsets == 2

\* Largest delayed replication count drawn from the bit stream.
MaxCount == 2

\* The longest descriptor list the resolver is given.
MaxLen == 3

\* ------------------------------------------------------------------------
\* Machine integers
\* ------------------------------------------------------------------------

MaxI32 == 2147483647

MinI32 == (-MaxI32) - 1

MaxU16 == 65535

RECURSIVE Pow2(_)
\* 2^n for 0 <= n <= 30 (the shifts `1 << n` whose result fits an i32).
Pow2(n) == IF n = 0 THEN 1 ELSE 2 * Pow2(n - 1)

\* i32 + i32 leaves the i32 range (what `a + b` on i32 checks in a build with
\* overflow checks).
OverflowsAddI32(a, b) ==
    \/ a > 0 /\ b > 0 /\ a > MaxI32 - b
    \/ a < 0 /\ b < 0 /\ a < MinI32 - b

\* (a + b) mod 2^32 as an i32: a wrapping i32 addition, and also the
\* narrowing `(x as i64 + y as i64) as i32` of two 32-bit patterns (the i64
\* sum of two 32-bit quantities never overflows, and `as i32` keeps its low
\* 32 bits).
WrapAddI32(a, b) ==
    IF a > 0 /\ b > 0 /\ a > MaxI32 - b THEN (a + MinI32) + (b + MinI32)
    ELSE IF a < 0 /\ b < 0 /\ a < MinI32 - b THEN (a - MinI32) + (b - MinI32)
    ELSE a + b

\* `x as i8` of an i16/i32 x: the low 8 bits, read as signed.
AsI8(x) == ((x + 128) % 256) - 128

\* `x as u16` of a usize x: the low 16 bits.
AsU16(x) == x % (MaxU16 + 1)

\* `x as u32` of an i32 x: same bits, hence the same representation.
I32AsU32(x) == x

\* `x as i32` of a u32 x: same bits.
U32AsI32(p) == p

\* The u32 pattern p lies in 0..=32 (the first arm of the match on
\* bit_width); patterns of values >= 2^31 are negative and never match.
U32InWordRange(p) == p >= 0 /\ p <= 32

\* `((1u64 << bit_width) - 1) as u32` for bit_width in 0..=32.
AllOnes(bit_width) ==
    IF bit_width = 32 THEN -1
    ELSE IF bit_width = 31 THEN MaxI32
    ELSE Pow2(bit_width) - 1

\* ------------------------------------------------------------------------
\* Descriptors and tables
\* ------------------------------------------------------------------------

\* Descriptor { f, x, y }
Descriptor(f, x, y) == [f |-> f, x |-> x, y |-> y]

\* Descriptor::xy
XYOf(desc) == [x |-> desc.x, y |-> desc.y]

\* TableBEntry.  The static content of Table B is data handed to the decoder
\* (callers insert their own entries); these entries are the ones the model
\* runs with.
TableBEntry(x, y, unit, scale, reference_value, bits) ==
    [xy |-> [x |-> x, y |-> y], unit |-> unit, scale |-> scale,
     reference_value |-> reference_value, bits |-> bits]

TABLE_B ==
    { TableBEntry(1, 1, "Numeric", 0, 0, 8),
      TableBEntry(1, 2, "m", 2, 0, 14),
      TableBEntry(1, 3, "Numeric", 0, -1, 32),
      TableBEntry(1, 4, "CCITT IA5", 0, 0, 40),
      TableBEntry(1, 5, "K", 1, -3, 2),
      TableBEntry(31, 1, "Numeric", 0, 0, 8) }

\* Table D: xy -> elements.
TableDEntry(x, y, elements) == [xy |-> [x |-> x, y |-> y], elements |-> elements]

TABLE_D ==
    { TableDEntry(1, 1, << Descriptor(0, 1, 1) >>),
      TableDEntry(1, 2, << Descriptor(1, 1, 0), Descriptor(0, 31, 1),
                           Descriptor(3, 1, 1) >>),
      TableDEntry(1, 3, << Descriptor(2, 2, 130), Descriptor(2, 1, 129),
                           Descriptor(0, 1, 1) >>),
      TableDEntry(1, 4, << >>) }

\* tables.table_b.get(&xy) / tables.table_d.get(&xy): the set of entries
\* found (empty, or one entry).
TableBGet(xy) == {b \in TABLE_B : b.xy = xy}

TableDGet(xy) == {d \in TABLE_D : d.xy = xy}

\* ------------------------------------------------------------------------
\* Descriptor resolver
\* ------------------------------------------------------------------------

Resolved(val) == [ok |-> TRUE, val |-> val]

Failed(err) == [ok |-> FALSE, err |-> err]

\* descriptors[from..to] (0-based, `to` exclusive) as a 1-based sequence.
Slice(s, from, to) == [i \in 1..(to - from) |-> s[from + i]]

\* The delayed-count marker after an f=1, y=0 descriptor: its width in bits,
\* or 0 for a descriptor that is no marker.
DelayedBits(desc) ==
    IF desc.f = 0 /\ desc.x = 31 /\ desc.y = 0 THEN 1
    ELSE IF desc.f = 0 /\ desc.x = 31 /\ desc.y = 1 THEN 8
    ELSE IF desc.f = 0 /\ desc.x = 31 /\ desc.y = 2 THEN 16
    ELSE IF desc.f = 0 /\ desc.x = 31 /\ desc.y = 3 THEN 8
    ELSE 0

RECURSIVE resolve_from(_, _, _)
RECURSIVE from_descriptor(_)

\* resolve_replication taking what is left of the list as the span when the
\* list ends before x descriptors.
resolve_replication_clamped(descriptors, pos, resolved) ==
    LET desc == descriptors[pos + 1] IN
    IF desc.y = 0 /\ pos + 1 >= Len(descriptors) THEN Failed("Panic")
    ELSE IF desc.y = 0 /\ DelayedBits(descriptors[pos + 2]) = 0 THEN Failed("Fatal")
    ELSE
      LET delayed_bits == IF desc.y = 0 THEN DelayedBits(descriptors[pos + 2]) ELSE 0
          p == IF desc.y = 0 THEN pos + 2 ELSE pos + 1
          end == IF p + desc.x > Len(descriptors) THEN Len(descriptors) ELSE p + desc.x
          inner == resolve_from(Slice(descriptors, p, end), 0, << >>)
      IN IF ~inner.ok THEN inner
         ELSE [ok |-> TRUE, pos |-> end,
               val |-> Append(resolved,
                              [t |-> "Replication", y |-> desc.y,
                               delayed_bits |-> delayed_bits,
                               descriptors |-> inner.val])]

\* resolve_replication leaving the marker of a delayed count in the list: the
\* span starts at the marker.
resolve_replication_marker_kept(descriptors, pos, resolved) ==
    LET desc == descriptors[pos + 1] IN
    IF desc.y = 0 /\ pos + 1 >= Len(descriptors) THEN Failed("Panic")
    ELSE IF desc.y = 0 /\ DelayedBits(descriptors[pos + 2]) = 0 THEN Failed("Fatal")
    ELSE
      LET delayed_bits == IF desc.y = 0 THEN DelayedBits(descriptors[pos + 2]) ELSE 0
          p == pos + 1
      IN IF p + desc.x > Len(descriptors) THEN Failed("Fatal")
         ELSE LET inner == resolve_from(Slice(descriptors, p, p + desc.x), 0, << >>)
              IN IF ~inner.ok THEN inner
                 ELSE [ok |-> TRUE, pos |-> p + desc.x,
                       val |-> Append(resolved,
                                      [t |-> "Replication", y |-> desc.y,
                                       delayed_bits |-> delayed_bits,
                                       descriptors |-> inner.val])]

\* One iteration of resolve_descriptors' loop on an f=1 descriptor at position
\* pos (0-based): the marker of a delayed count, the span test, the nested
\* resolution of the span, the push.  An index past the end of the slice
\* panics.
resolve_replication(descriptors, pos, resolved) ==
    LET desc == descriptors[pos + 1] IN
    IF desc.y = 0 /\ pos + 1 >= Len(descriptors) THEN Failed("Panic")
    ELSE IF desc.y = 0 /\ DelayedBits(descriptors[pos + 2]) = 0 THEN Failed("Fatal")
    ELSE
      LET delayed_bits == IF desc.y = 0 THEN DelayedBits(descriptors[pos + 2]) ELSE 0
          p == IF desc.y = 0 THEN pos + 2 ELSE pos + 1
      IN IF p + desc.x > Len(descriptors) THEN Failed("Fatal")
         ELSE LET inner == resolve_from(Slice(descriptors, p, p + desc.x), 0, << >>)
              IN IF ~inner.ok THEN inner
                 ELSE [ok |-> TRUE, pos |-> p + desc.x,
                       val |-> Append(resolved,
                                      [t |-> "Replication", y |-> desc.y,
                                       delayed_bits |-> delayed_bits,
                                       descriptors |-> inner.val])]

\* One iteration of the loop on a descriptor with f # 1.
resolve_other(descriptors, pos, resolved) ==
    LET r == from_descriptor(descriptors[pos + 1])
    IN IF ~r.ok THEN r
       ELSE [ok |-> TRUE, pos |-> pos + 1, val |-> Append(resolved, r.val)]

\* resolve_descriptors: the loop from position pos (0-based) with the nodes
\* resolved so far.
resolve_from(descriptors, pos, resolved) ==
    IF pos >= Len(descriptors) THEN Resolved(resolved)
    ELSE LET step == IF descriptors[pos + 1].f = 1
                     THEN resolve_replication(descriptors, pos, resolved)
                     ELSE resolve_other(descriptors, pos, resolved)
         IN IF ~step.ok THEN step
            ELSE resolve_from(descriptors, step.pos, step.val)

\* ResolvedDescriptor::from_descriptor, for f # 1.
from_descriptor(desc) ==
    IF desc.f = 0 THEN
        IF TableBGet(XYOf(desc)) = {} THEN Failed("Fatal")
        ELSE Resolved([t |-> "Data", b |-> CHOOSE b \in TableBGet(XYOf(desc)) : TRUE])
    ELSE IF desc.f = 2 THEN Resolved([t |-> "Operator", xy |-> XYOf(desc)])
    ELSE IF desc.f = 3 THEN
        IF TableDGet(XYOf(desc)) = {} THEN Failed("Fatal")
        ELSE LET d == CHOOSE d \in TableDGet(XYOf(desc)) : TRUE
                 elements == resolve_from(d.elements, 0, << >>)
             IN IF ~elements.ok THEN elements
                ELSE Resolved([t |-> "Sequence", d |-> d.xy, descriptors |-> elements.val])
    ELSE Failed("Fatal")

resolve_descriptors(descriptors) == resolve_from(descriptors, 0, << >>)


\* ------------------------------------------------------------------------
\* Inputs
\* ------------------------------------------------------------------------

\* The descriptor lists of a data-description section that Init draws from
\* (DataDescriptionSection.descriptors).
Programs ==
    { << >>,
      << Descriptor(0, 1, 1) >>,
      << Descriptor(0, 1, 2) >>,
      << Descriptor(0, 1, 3) >>,
      << Descriptor(0, 1, 4), Descriptor(0, 1, 1) >>,
      << Descriptor(0, 1, 5), Descriptor(0, 1, 4) >>,
      << Descriptor(2, 2, 130), Descriptor(0, 1, 1),
         Descriptor(2, 2, 0), Descriptor(0, 1, 1) >>,
      << Descriptor(0, 1, 1), Descriptor(2, 1, 152) >>,
      << Descriptor(2, 1, 126), Descriptor(0, 1, 5), Descriptor(2, 1, 0) >>,
      << Descriptor(2, 6, 8), Descriptor(0, 1, 1) >>,
      << Descriptor(2, 1, 129), Descriptor(2, 4, 1), Descriptor(0, 1, 1) >>,
      << Descriptor(2, 2, 127), Descriptor(2, 8, 0) >>,
      << Descriptor(1, 1, 2), Descriptor(0, 1, 1) >>,
      << Descriptor(1, 0, 2), Descriptor(0, 1, 1) >>,
      << Descriptor(1, 1, 0), Descriptor(0, 31, 0), Descriptor(3, 1, 4) >>,
      << Descriptor(3, 1, 1), Descriptor(0, 1, 2) >>,
      << Descriptor(3, 1, 2) >>,
      << Descriptor(3, 1, 3), Descriptor(3, 1, 1) >>,
      << Descriptor(1, 2, 2), Descriptor(2, 2, 129), Descriptor(0, 1, 1) >>,
      << Descriptor(1, 3, 0), Descriptor(0, 31, 1), Descriptor(1, 1, 2),
         Descriptor(3, 1, 3), Descriptor(0, 1, 2) >>,
      << Descriptor(2, 1, 129), Descriptor(0, 1, 3) >>,
      << Descriptor(2, 1, 112), Descriptor(0, 1, 1) >>,
      << Descriptor(2, 1, 1), Descriptor(0, 1, 1) >>,
      << Descriptor(2, 2, 255), Descriptor(0, 1, 2) >> }

\* The values a successful read of n bits (0 <= n <= 32) is drawn from, as
\* u32 patterns: zero, one, 42, only the top bit, all ones but the last bit,
\* all ones.
SampleBits(n) ==
    IF n = 0 THEN {0}
    ELSE LET top == IF n = 32 THEN MinI32 ELSE Pow2(n - 1)
         IN {p \in {0, 1, 42, top, AllOnes(n) - 1, AllOnes(n)} :
               n = 32 \/ (p >= 0 /\ p <= AllOnes(n))}

\* The byte vectors a successful read of n whole bytes is drawn from: a first
\* byte followed by n - 1 equal bytes, over the bytes 'A', 0x80 and 0xFF.
SampleBytes(n) ==
    {[len |-> n, head |-> h, fill |-> f] : h \in {65, 255}, f \in {65, 128, 255}}

\* vec.iter().all(|it| *it == 0xff)
AllFF(vec) ==
    vec.len = 0 \/ (vec.head = 255 /\ (vec.len = 1 \/ vec.fill = 255))

\* String::from_utf8(vec).is_ok(), for vectors over 'A', 0x80 and 0xFF: a
\* lone 0x80 or 0xFF is never valid UTF-8, 'A' always is.
Utf8Ok(vec) ==
    vec.len = 0 \/ (vec.head < 128 /\ (vec.len = 1 \/ vec.fill < 128))

\* ------------------------------------------------------------------------
\* State
\* ------------------------------------------------------------------------

VARIABLES
    phase,                  \* what runs: "Header", "Resolve", "Data", "End"
    header_stage,           \* HeaderSections::read: the section it reads next
    header_result,          \* HeaderSections::read: "Running", or how it returned
    header_read,            \* the bytes HeaderSections::read has consumed
    header_wire,            \* what the stream held where the last section read began
    indicator_section,      \* HeaderSections::read: the sections read so far
    identification_section,
    optional_section,
    data_description_section,
    edition,                \* ensure_end_section: edition
    source,                 \* ensure_end_section: the bytes the reader still holds
    end_stage,              \* ensure_end_section: what it reads next
    end_result,             \* ensure_end_section: "Running", or how it returned
    end_read,               \* the bytes ensure_end_section has consumed
    section_descriptors,    \* the descriptor list resolve_descriptors is called with
    pos,                    \* resolve_descriptors: pos
    resolved,               \* resolve_descriptors: resolved
    outcome,                \* resolve_descriptors: "Running", or how it returned
    data_spec,              \* DataSpec: number_of_subsets, is_compressed, root_descriptors
    overflow_checks,        \* the build panics on integer overflow (debug) or wraps (release)
    current_subset_index,   \* DataReader.current_subset_index
    stack,                  \* DataReader.stack
    temporary_operator,     \* DataReader.temporary_operator
    width_offset,           \* DataReader.width_offset
    scale_offset,           \* DataReader.scale_offset
    reader,                 \* DataReader.reader: the bit position within the current byte
    last,                   \* what the last read_event call returned
    consumed,               \* the bits the last read_event call consumed
    raw,                    \* what the last read_event call read from the stream
    first,                  \* the kind of the first result returned
    subset_counter,         \* test_full_read's counters
    sequence_counter,
    replication_counter,
    replication_item_counter,
    open,                   \* the Start events not yet closed, innermost last
    closed,                 \* the entry of `open` the last event closed
    nest_ok,                \* no event so far broke the nesting
    subset_starts,          \* SubsetStart events returned so far
    compressed_starts,      \* CompressedStart events returned so far
    twin,                   \* a second DataReader built over an equal source and DataSpec
    columns,                \* the column materializer reading the events
    fmt_value,              \* the Value handed to the Debug formatter
    fmt_text                \* what the formatter wrote

readerVars == << current_subset_index, stack, temporary_operator, width_offset,
                 scale_offset, reader >>

observerVars == << last, consumed, raw, first, subset_counter, sequence_counter,
                   replication_counter, replication_item_counter, open, closed,
                   nest_ok, subset_starts, compressed_starts, twin, columns >>

resolverVars == << section_descriptors, pos, resolved, outcome >>

fmtVars == << fmt_value, fmt_text >>

decoderVars == << data_spec, overflow_checks, readerVars, observerVars, fmtVars >>

headerVars == << header_stage, header_result, header_read, header_wire, indicator_section,
                
                 identification_section, optional_section, data_description_section >>

endVars == << edition, source, end_stage, end_result, end_read >>

fileVars == << phase, headerVars, endVars >>

vars == << fileVars, resolverVars, decoderVars >>

\* ------------------------------------------------------------------------
\* Events, values and errors
\* ------------------------------------------------------------------------

Missing == [tag |-> "Missing"]

Integer(v) == [tag |-> "Integer", v |-> v]

Decimal(m, s) == [tag |-> "Decimal", m |-> m, s |-> s]

String(vec) == [tag |-> "String", s |-> vec]

Event(kind) == [kind |-> kind]

Err(err) == [kind |-> "Err", err |-> err]

\* A panic of the process (an overflow check, an index out of bounds).
Panic == [kind |-> "Panic"]

NoRead == [what |-> "none"]

\* ------------------------------------------------------------------------
\* Stack entries
\* ------------------------------------------------------------------------

\* StackEntry::new_sequence
new_sequence(descriptors) ==
    [ty |-> "Sequence", descriptors |-> descriptors, next |-> 0]

\* StackEntry::new_replication
new_replication(descriptors, count) ==
    [ty |-> "Replication", remaining |-> count, in_item |-> FALSE,
     descriptors |-> descriptors, next |-> AsU16(Len(descriptors))]

Top == stack[Len(stack)]

Pop(s) == SubSeq(s, 1, Len(s) - 1)

\* The stack with its top entry replaced.
WithTop(entry) == [stack EXCEPT ![Len(stack)] = entry]


\* ------------------------------------------------------------------------
\* The observer: test_full_read's counters, and the open Start events
\* ------------------------------------------------------------------------

StartKinds == {"SubsetStart", "CompressedStart", "SequenceStart",
               "ReplicationStart", "ReplicationItemStart"}

EndKinds == {"SubsetEnd", "SequenceEnd", "ReplicationEnd", "ReplicationItemEnd"}

LeafKinds == {"Data", "CompressedData", "OperatorHandled"}

\* What a Start event opens and what an End event closes.  Eof closes the
\* walk that CompressedStart opened.
Opens(kind) ==
    CASE kind = "SubsetStart" -> "Subset"
      [] kind = "CompressedStart" -> "Compressed"
      [] kind = "SequenceStart" -> "Sequence"
      [] kind = "ReplicationStart" -> "Replication"
      [] kind = "ReplicationItemStart" -> "Item"

Closes(kind) ==
    CASE kind = "SubsetEnd" -> "Subset"
      [] kind = "Eof" -> "Compressed"
      [] kind = "SequenceEnd" -> "Sequence"
      [] kind = "ReplicationEnd" -> "Replication"
      [] kind = "ReplicationItemEnd" -> "Item"

\* An open Start event: its kind, for a replication its declared count and
\* the items started in it so far, the children seen directly in it, and the
\* replications open when it was opened (replication_counter at that time).
OpenEntry(k, count, rc) == [k |-> k, count |-> count, items |-> 0, n |-> 0, rc |-> rc]

NoEntry == OpenEntry("None", 0, 0)

\* The event may occur directly inside the innermost open Start event.
FitsParent(res) ==
    CASE res.kind \in {"SubsetStart", "CompressedStart"} -> open = << >>
      [] res.kind = "ReplicationItemStart" ->
            open # << >> /\ open[Len(open)].k = "Replication"
      [] res.kind \in {"SequenceStart", "ReplicationStart"} \cup LeafKinds ->
            open # << >>
            /\ open[Len(open)].k \in {"Subset", "Compressed", "Sequence", "Item"}
      [] res.kind \in EndKinds -> open # << >> /\ open[Len(open)].k = Closes(res.kind)
      [] res.kind = "Eof" -> open = << >> \/ open[Len(open)].k = "Compressed"
      [] OTHER -> TRUE

\* `open` with the event counted in its innermost entry.
Counted(res) ==
    IF open = << >> THEN open
    ELSE IF res.kind = "ReplicationItemStart"
         THEN [open EXCEPT ![Len(open)].items = @ + 1]
         ELSE [open EXCEPT ![Len(open)].n = @ + 1]

OpenAfter(res) ==
    CASE res.kind \in StartKinds ->
            Append(Counted(res),
                   OpenEntry(Opens(res.kind),
                             IF res.kind = "ReplicationStart" THEN res.count ELSE 0,
                             replication_counter))
      [] res.kind \in EndKinds \cup {"Eof"} -> IF open = << >> THEN open ELSE Pop(open)
      [] res.kind \in LeafKinds -> Counted(res)
      [] OTHER -> open

ClosedAfter(res) ==
    IF res.kind \in EndKinds \cup {"Eof"} /\ open # << >> THEN open[Len(open)]
    ELSE IF res.kind \in EndKinds THEN NoEntry
    ELSE closed

Delta(kind, up, down) == IF kind = up THEN 1 ELSE IF kind = down THEN -1 ELSE 0

\* ------------------------------------------------------------------------
\* The column materializer (arrow): the pass that names the fields
\* ------------------------------------------------------------------------

\* TableBEntry.element_name and TableDEntry.title of the tables' entries.
element_name(xy) ==
    CASE xy = [x |-> 1, y |-> 1] -> "STATION NUMBER"
      [] xy = [x |-> 1, y |-> 2] -> "HEIGHT"
      [] xy = [x |-> 1, y |-> 3] -> "DIFFERENCE"
      [] xy = [x |-> 1, y |-> 4] -> "STATION NAME"
      [] xy = [x |-> 1, y |-> 5] -> "TEMPERATURE"
      [] OTHER -> "REPLICATION FACTOR"

title(xy) ==
    CASE xy = [x |-> 1, y |-> 1] -> "(Station)"
      [] xy = [x |-> 1, y |-> 2] -> "(Levels)"
      [] xy = [x |-> 1, y |-> 3] -> "(Scaled station)"
      [] OTHER -> "(Empty)"

ElementNames == {element_name(b.xy) : b \in TABLE_B}

Titles == {title(d.xy) : d \in TABLE_D}

\* FieldNameContext::default(): a key absent from a map counts as 0, which is
\* what entry().or_insert(0) makes of it.
FieldNameContext ==
    [element_name_counts |-> [n \in ElementNames |-> 0],
     sequence_title_counts |-> [t \in Titles |-> 0],
     replication_count |-> 0]

\* track_element, were the count never moved past one.
track_element_once(ctx, name) ==
    [ctx |-> [ctx EXCEPT !.element_name_counts[name] = 1], count |-> 1]

\* FieldNameContext::track_element: the context after the call, and the count
\* returned.
track_element(ctx, name) ==
    [ctx |-> [ctx EXCEPT !.element_name_counts[name] = @ + 1],
     count |-> ctx.element_name_counts[name] + 1]

track_sequence(ctx, t) ==
    [ctx |-> [ctx EXCEPT !.sequence_title_counts[t] = @ + 1],
     count |-> ctx.sequence_title_counts[t] + 1]

track_replication(ctx) ==
    [ctx |-> [ctx EXCEPT !.replication_count = @ + 1],
     count |-> ctx.replication_count + 1]

\* create_field_name: the pieces format! puts together, in order.
create_field_name(b, count) ==
    IF b.unit = "Numeric"
    THEN IF count \in {0, 1} THEN << element_name(b.xy) >>
         ELSE << element_name(b.xy), " (", ToString(count), ")" >>
    ELSE IF count \in {0, 1} THEN << element_name(b.xy), " [", b.unit, "]" >>
         ELSE << element_name(b.xy), " [", b.unit, "]", " (", ToString(count), ")" >>

\* determine_arrow_type_from_table_b
determine_arrow_type_from_table_b(entry) ==
    IF entry.unit = "CCITT IA5" THEN "Utf8"
    ELSE IF entry.unit \in {"Code table", "Flag table"} THEN "Int32"
    ELSE IF entry.scale = 0 THEN "Int32"
    ELSE IF entry.scale < 0 THEN "Float64"
    ELSE "Int32"

\* RowValue; a Scalar is held by its Table B entry.
ScalarRow(b) == [k |-> "Scalar", b |-> b]

StructRow(fields) == [k |-> "Struct", fields |-> fields]

ListRow(items) == [k |-> "List", items |-> items]

\* ColumnData and ColumnDataBuilder; the values of a Scalar are held by
\* their number.
ScalarColumn(values, ty) == [k |-> "Scalar", values |-> values, ty |-> ty]

StructColumn(fields) == [k |-> "Struct", fields |-> fields]

ListColumn(offsets, items) == [k |-> "List", offsets |-> offsets, items |-> items]

\* An IndexMap<String, _> is the sequence of its entries in insertion order.
\* IndexMap::get: the place of the key, 0 when absent.
Find(map, name) ==
    IF \E i \in 1..Len(map) : map[i].name = name
    THEN CHOOSE i \in 1..Len(map) : map[i].name = name
    ELSE 0

\* IndexMap::insert: a key already present keeps its place.
Insert(map, name, val) ==
    IF Find(map, name) = 0 THEN Append(map, [name |-> name, val |-> val])
    ELSE [map EXCEPT ![Find(map, name)].val = val]

\* initialize_columns_from_subset
RECURSIVE initialize_columns_from_subset(_)
initialize_columns_from_subset(subset) ==
    [i \in 1..Len(subset) |->
        LET value == subset[i].val
        IN [name |-> subset[i].name,
            val |-> CASE value.k = "Scalar" ->
                           ScalarColumn(0, determine_arrow_type_from_table_b(value.b))
                      [] value.k = "Struct" ->
                           StructColumn(initialize_columns_from_subset(value.fields))
                      [] value.k = "List" ->
                           ListColumn(<< 0 >>,
                                      StructColumn(
                                          IF value.items = << >> THEN << >>
                                          ELSE initialize_columns_from_subset(
                                                   value.items[1])))]]

\* add_value_to_column, and its loops: over the fields of a map from the
\* i-th on (the names the columns do not hold are skipped), and over the
\* items of a list from the i-th on.
RECURSIVE add_value_to_column(_, _), add_fields(_, _, _), add_items(_, _, _)
add_fields(fields, columns_, i) ==
    IF i > Len(fields) THEN Resolved(columns_)
    ELSE LET j == Find(columns_, fields[i].name)
             r == add_value_to_column(fields[i].val, columns_[j].val)
         IN IF j = 0 THEN add_fields(fields, columns_, i + 1)
            ELSE IF ~r.ok THEN r
            ELSE add_fields(fields, [columns_ EXCEPT ![j].val = r.val], i + 1)

add_items(items, col_items, i) ==
    IF i > Len(items) THEN Resolved(col_items)
    ELSE IF col_items.k # "Struct" THEN add_items(items, col_items, i + 1)
    ELSE LET r == add_fields(items[i], col_items.fields, 1)
         IN IF ~r.ok THEN r
            ELSE add_items(items, StructColumn(r.val), i + 1)

add_value_to_column(value, column) ==
    IF value.k = "Scalar" /\ column.k = "Scalar"
    THEN Resolved([column EXCEPT !.values = @ + 1])
    ELSE IF value.k = "Struct" /\ column.k = "Struct"
    THEN LET r == add_fields(value.fields, column.fields, 1)
         IN IF r.ok THEN Resolved(StructColumn(r.val)) ELSE r
    ELSE IF value.k = "List" /\ column.k = "List"
    THEN LET last_offset == column.offsets[Len(column.offsets)]
             r == add_items(value.items, column.items, 1)
         IN IF r.ok
            THEN Resolved(ListColumn(Append(column.offsets,
                                            last_offset + Len(value.items)),
                                     r.val))
            ELSE r
    ELSE Failed("Fatal")

\* add_subset_to_columns
add_subset_to_columns(subset, columns_) == add_fields(subset, columns_, 1)

\* parse_non_compressed_as_columns, were the first subset parsed for the
\* structure of the columns only.
first_columns_structure_only(first_subset) ==
    Resolved(initialize_columns_from_subset(first_subset))

\* parse_non_compressed_as_columns on the first subset: the columns are
\* initialized from it, and it is added to them.
first_columns(first_subset) ==
    add_subset_to_columns(first_subset, initialize_columns_from_subset(first_subset))

\* merge_replication_items: for every field name of the first item, the
\* values of that field in all the items, one after the other.
merge_replication_items(items) ==
    IF items = << >> THEN Resolved(<< >>)
    ELSE LET field_names == [i \in 1..Len(items[1]) |-> items[1][i].name]
             held(f) == {n \in 1..Len(items) : Find(items[n], field_names[f]) # 0}
             column_data(f, n) == items[n][Find(items[n], field_names[f])].val
             RECURSIVE all_values(_, _)
             all_values(f, n) ==
                 IF n > Len(items) THEN 0
                 ELSE (IF n \in held(f) THEN column_data(f, n).values ELSE 0)
                      + all_values(f, n + 1)
         IN IF \E f \in 1..Len(field_names) :
                  \E n \in held(f) : column_data(f, n).k # "Scalar"
            THEN Failed("Fatal")
            ELSE Resolved([f \in 1..Len(field_names) |->
                             [name |-> field_names[f],
                              val |-> ScalarColumn(all_values(f, 1),
                                                   column_data(f, 1).ty)]])

\* The end of parse_compressed_replication with the items counted per
\* subset as they come: `items_per_subset = all_item_data.len()`.
compressed_list_column_undivided(all_item_data, num_subsets) ==
    LET items_per_subset == Len(all_item_data)
        merged_items == merge_replication_items(all_item_data)
    IN IF ~merged_items.ok THEN merged_items
       ELSE Resolved(ListColumn(<< 0 >> \o [i \in 1..num_subsets |->
                                               i * items_per_subset],
                                StructColumn(merged_items.val)))

\* The end of parse_compressed_replication, num_subsets above 0: the
\* offsets, and the merged items under them.
compressed_list_column(all_item_data, num_subsets) ==
    LET items_per_subset == Len(all_item_data) \div num_subsets
        merged_items == merge_replication_items(all_item_data)
    IN IF ~merged_items.ok THEN merged_items
       ELSE Resolved(ListColumn(<< 0 >> \o [i \in 1..num_subsets |->
                                               i * items_per_subset],
                                StructColumn(merged_items.val)))

\* is_empty_struct
RECURSIVE is_empty_struct(_)
is_empty_struct(column) ==
    IF column.k = "Struct" THEN column.fields = << >>
    ELSE IF column.k = "List" THEN is_empty_struct(column.items)
    ELSE FALSE

\* build_arrow_array: the Field of the array built, a name and a data type.
RECURSIVE build_arrow_array(_, _)
build_arrow_array(field_name, column) ==
    LET sub_fields(fields) ==
            [i \in 1..Len(fields) |-> build_arrow_array(fields[i].name, fields[i].val)]
    IN IF column.k = "Scalar" THEN [name |-> field_name, ty |-> [k |-> column.ty]]
       ELSE IF column.k = "Struct"
       THEN [name |-> field_name,
             ty |-> [k |-> "Struct", fields |-> sub_fields(column.fields)]]
       ELSE [name |-> field_name,
             ty |-> [k |-> "List",
                     item |-> [name |-> << "item" >>,
                               ty |-> [k |-> "Struct",
                                       fields |-> sub_fields(column.items.fields)]]]]

\* The columns convert_column_data_to_arrow keeps, in order.
RECURSIVE Kept(_)
Kept(columns_) ==
    IF columns_ = << >> THEN << >>
    ELSE IF is_empty_struct(columns_[1].val) THEN Kept(Tail(columns_))
    ELSE << columns_[1] >> \o Kept(Tail(columns_))

\* convert_column_data_to_arrow: the fields of the Schema.
convert_column_data_to_arrow(columns_) ==
    [i \in 1..Len(Kept(columns_)) |->
        build_arrow_array(Kept(columns_)[i].name, Kept(columns_)[i].val)]

\* One call of a parse_* function in progress: the function, its
\* FieldNameContext, the map it fills (`subset`, `sequence`, `columns`), the
\* items it has collected (`replication`, `all_item_data`), and the label
\* under which its caller inserts what it returns.
CallAs(fn, label) ==
    [fn |-> fn, ctx |-> FieldNameContext, fields |-> << >>, items |-> << >>,
     label |-> label]

Call(fn) == CallAs(fn, << >>)

\* The materializer: the calls in progress, innermost last; the last field
\* name made; the events it has taken from read_event; how it returned; the
\* columns of parse_data_as_columns; the subsets parse_subset has returned;
\* the list columns parse_compressed_replication has returned, each with the
\* number of its items; the fields of the Schema.
Columns(calls, label, history, result) ==
    [calls |-> calls, label |-> label, history |-> history, result |-> result,
     columns |-> << >>, subsets |-> << >>, built |-> << >>, schema |-> << >>]

NewColumns == Columns(<< >>, << >>, << >>, "Running")

\* No materializer runs.
NoColumns == Columns(<< >>, << >>, << >>, "Absent")

\* The functions that give names, and the two that walk a replication.
NamingCalls ==
    {"parse_subset", "parse_sequence", "parse_compressed_structure",
     "parse_compressed_replication_item"}

Compressed(fn) ==
    fn \in {"parse_compressed_structure", "parse_compressed_replication_item",
            "parse_compressed_replication"}

\* The event at which the loop of a call breaks.
Breaks(fn, kind) ==
    CASE fn = "parse_subset" -> kind = "SubsetEnd"
      [] fn = "parse_sequence" -> kind \in {"SequenceEnd", "ReplicationItemEnd"}
      [] fn = "parse_compressed_structure" -> kind \in {"SequenceEnd", "Eof"}
      [] fn = "parse_compressed_replication_item" -> kind = "ReplicationItemEnd"
      [] OTHER -> kind = "ReplicationEnd"

\* The label of a sequence: its title, numbered from the second occurrence.
sequence_label(t, count) ==
    IF count \in {0, 1} THEN << t >> ELSE << t, " (", ToString(count), ")" >>

\* What a call hands to its caller when it returns.
ReturnValue(call, num_subsets) ==
    CASE call.fn \in {"parse_subset", "parse_sequence",
                      "parse_compressed_replication_item"} -> Resolved(call.fields)
      [] call.fn = "parse_compressed_structure" -> Resolved(call.fields)
      [] call.fn = "parse_replication" -> Resolved(call.items)
      [] OTHER -> compressed_list_column(call.items, num_subsets)

\* The calls in progress once the innermost has returned `val`: the caller
\* pushes an item, or inserts a struct or a list under the label.
CallReturned(calls, val) ==
    LET n == Len(calls)
        top == calls[n]
        caller == calls[n - 1]
        entered == CASE top.fn = "parse_sequence" -> StructRow(val)
                     [] top.fn = "parse_replication" -> ListRow(val)
                     [] top.fn = "parse_compressed_structure" -> StructColumn(val)
                     [] OTHER -> val
    IN [i \in 1..(n - 1) |->
          IF i < n - 1 THEN calls[i]
          ELSE IF caller.fn \in {"parse_replication", "parse_compressed_replication"}
          THEN [caller EXCEPT !.items = Append(@, val)]
          ELSE [caller EXCEPT !.fields = Insert(@, top.label, entered)]]

\* What one event does to the materializer: parse_data_as_columns and the
\* parse_* functions it calls, each a loop over read_event.
Materialized(cols, res, spec) ==
    LET calls == cols.calls
        n == Len(calls)
        top == calls[n]
        history == Append(cols.history,
                          [kind |-> res.kind,
                           name |-> IF res.kind \in {"Data", "CompressedData"}
                                    THEN element_name(res.xy) ELSE ""])
        returned(result) == [cols EXCEPT !.history = history, !.result = result]
        running(c, label) ==
            [cols EXCEPT !.calls = c, !.label = label, !.history = history]
        under(call) == [i \in 1..n |-> IF i = n THEN call ELSE calls[i]]
        val == ReturnValue(top, spec.number_of_subsets)
        \* parse_non_compressed_as_columns with the subset parse_subset returns
        added == IF cols.subsets = << >> THEN first_columns(top.fields)
                 ELSE add_subset_to_columns(top.fields, cols.columns)
    IN IF res.kind = "Err" THEN returned("Err")
       ELSE IF res.kind = "Panic" THEN returned("Panic")
       ELSE IF n = 0
       THEN IF res.kind = "Eof"
            THEN [returned("Ok") EXCEPT
                    !.schema = convert_column_data_to_arrow(cols.columns)]
            ELSE IF ~spec.is_compressed /\ res.kind = "SubsetStart"
            THEN running(<< Call("parse_subset") >>, cols.label)
            ELSE IF spec.is_compressed /\ res.kind = "CompressedStart"
            THEN running(<< Call("parse_compressed_structure") >>, cols.label)
            ELSE returned("Fatal")
       ELSE IF Breaks(top.fn, res.kind)
       THEN IF top.fn = "parse_compressed_replication" /\ spec.number_of_subsets = 0
            THEN returned("Panic")
            ELSE IF ~val.ok THEN returned("Fatal")
            ELSE IF top.fn = "parse_subset"
            THEN IF ~added.ok THEN returned("Fatal")
                 ELSE [running(<< >>, cols.label) EXCEPT
                         !.columns = added.val,
                         !.subsets = Append(@, top.fields)]
            ELSE IF n = 1
            THEN [running(<< >>, cols.label) EXCEPT !.columns = val.val]
            ELSE IF top.fn = "parse_compressed_replication"
            THEN [running(CallReturned(calls, val.val), cols.label) EXCEPT
                    !.built = Append(@, [items |-> Len(top.items),
                                         column |-> val.val])]
            ELSE running(CallReturned(calls, val.val), cols.label)
       ELSE IF top.fn \in NamingCalls
       THEN IF res.kind = (IF Compressed(top.fn) THEN "CompressedData" ELSE "Data")
            THEN LET found == TableBGet(res.xy)
                     b == CHOOSE e \in found : TRUE
                     t == track_element(top.ctx, element_name(b.xy))
                     field_name == create_field_name(b, t.count)
                     entered ==
                         IF Compressed(top.fn)
                         THEN ScalarColumn(Len(res.values),
                                           determine_arrow_type_from_table_b(b))
                         ELSE ScalarRow(b)
                 IN IF found = {} THEN returned("Fatal")
                    ELSE running(under([top EXCEPT
                                          !.ctx = t.ctx,
                                          !.fields = Insert(@, field_name, entered)]),
                                 field_name)
            ELSE IF res.kind = "SequenceStart"
            THEN LET t == track_sequence(top.ctx, title(res.xy))
                 IN IF TableDGet(res.xy) = {} THEN returned("Fatal")
                    ELSE running(Append(under([top EXCEPT !.ctx = t.ctx]),
                                        CallAs(IF Compressed(top.fn)
                                               THEN "parse_compressed_structure"
                                               ELSE "parse_sequence",
                                               sequence_label(title(res.xy), t.count))),
                                 cols.label)
            ELSE IF res.kind = "ReplicationStart"
            THEN LET t == track_replication(top.ctx)
                 IN running(Append(under([top EXCEPT !.ctx = t.ctx]),
                                   CallAs(IF Compressed(top.fn)
                                          THEN "parse_compressed_replication"
                                          ELSE "parse_replication",
                                          << "replication:", ToString(t.count) >>)),
                            cols.label)
            ELSE IF res.kind = "OperatorHandled" THEN running(calls, cols.label)
            ELSE returned("Fatal")
       ELSE IF res.kind = "ReplicationItemStart"
       THEN running(Append(calls, Call(IF Compressed(top.fn)
                                       THEN "parse_compressed_replication_item"
                                       ELSE "parse_sequence")),
                    cols.label)
       ELSE returned("Fatal")

\* One read_event call has returned `res` after consuming `bits` bits and
\* reading `rawv`: the reader's bit position moves, and the caller counts the
\* event as test_full_read does.
Return(res, bits, rawv) ==
    /\ last' = res
    /\ consumed' = bits
    /\ raw' = rawv
    /\ reader' = (reader + bits) % 8
    /\ first' = IF first = "None" THEN res.kind ELSE first
    /\ subset_counter' = subset_counter + Delta(res.kind, "SubsetStart", "SubsetEnd")
    /\ sequence_counter' =
          sequence_counter + Delta(res.kind, "SequenceStart", "SequenceEnd")
    /\ replication_counter' =
          replication_counter + Delta(res.kind, "ReplicationStart", "ReplicationEnd")
    /\ replication_item_counter' =
          replication_item_counter
            + Delta(res.kind, "ReplicationItemStart", "ReplicationItemEnd")
    /\ open' = OpenAfter(res)
    /\ closed' = ClosedAfter(res)
    /\ nest_ok' = (nest_ok /\ FitsParent(res))
    /\ subset_starts' = subset_starts + (IF res.kind = "SubsetStart" THEN 1 ELSE 0)
    /\ compressed_starts' =
          compressed_starts + (IF res.kind = "CompressedStart" THEN 1 ELSE 0)
    /\ columns' = IF columns.result = "Running"
                   THEN Materialized(columns, res, data_spec) ELSE columns
    /\ UNCHANGED fmtVars


\* ------------------------------------------------------------------------
\* DataReader as a value
\* ------------------------------------------------------------------------

\* The fields of a DataReader, with the bit position of its reader and what
\* its last read_event call returned.
ReaderOf(index, entries, t_operator, w_offset, s_offset, bit_pos, res) ==
    [current_subset_index |-> index, stack |-> entries,
     temporary_operator |-> t_operator, width_offset |-> w_offset,
     scale_offset |-> s_offset, reader |-> bit_pos, last |-> res]

\* DataReader::new
NewReader == ReaderOf(0, << >>, [some |-> FALSE], 0, 0, 0, [kind |-> "None"])

\* No second DataReader has been built.
NoTwin == ReaderOf(0, << >>, [some |-> FALSE], 0, 0, 0, [kind |-> "Absent"])

\* ------------------------------------------------------------------------
\* DataReader: pure parts
\* ------------------------------------------------------------------------

\* at_eof, were the end of the message "a subset has been read" in both modes.
at_eof_after_first(index, spec) == index > 0

\* at_eof, were the end of the message "all declared subsets read" in both
\* modes.
at_eof_by_count(index, spec) == index = spec.number_of_subsets

\* read_event's test for the end of the message, taken with an empty stack.
at_eof(index, spec) ==
    IF spec.is_compressed THEN index > 0
    ELSE index = spec.number_of_subsets

\* The event read_event returns after pushing the root list.
start_event(subset_idx, spec) ==
    IF spec.is_compressed THEN Event("CompressedStart")
    ELSE [kind |-> "SubsetStart", idx |-> subset_idx]

\* replication_step without the test of in_item: an item starts while the
\* previous one is still open.
replication_step_no_item_end(top) ==
    IF top.remaining > 0
    THEN [event |-> Event("ReplicationItemStart"), pop |-> FALSE,
          top |-> [top EXCEPT !.remaining = @ - 1, !.next = 0, !.in_item = TRUE]]
    ELSE [event |-> Event("ReplicationEnd"), pop |-> TRUE, top |-> top]

\* replication_step without `*remaining -= 1`.
replication_step_no_decrement(top) ==
    IF top.in_item
    THEN [event |-> Event("ReplicationItemEnd"), pop |-> FALSE,
          top |-> [top EXCEPT !.in_item = FALSE]]
    ELSE IF top.remaining > 0
    THEN [event |-> Event("ReplicationItemStart"), pop |-> FALSE,
          top |-> [top EXCEPT !.next = 0, !.in_item = TRUE]]
    ELSE [event |-> Event("ReplicationEnd"), pop |-> TRUE, top |-> top]

\* replication_step answering the end of the replication with SequenceEnd.
replication_step_sequence_end(top) ==
    IF top.in_item
    THEN [event |-> Event("ReplicationItemEnd"), pop |-> FALSE,
          top |-> [top EXCEPT !.in_item = FALSE]]
    ELSE IF top.remaining > 0
    THEN [event |-> Event("ReplicationItemStart"), pop |-> FALSE,
          top |-> [top EXCEPT !.remaining = @ - 1, !.next = 0, !.in_item = TRUE]]
    ELSE [event |-> Event("SequenceEnd"), pop |-> TRUE, top |-> top]

\* process_next_descriptor at the end of a replication's child list: the
\* event, and the stack entry afterwards (pop: the entry is removed).
replication_step(top) ==
    IF top.in_item
    THEN [event |-> Event("ReplicationItemEnd"), pop |-> FALSE,
          top |-> [top EXCEPT !.in_item = FALSE]]
    ELSE IF top.remaining > 0
    THEN [event |-> Event("ReplicationItemStart"), pop |-> FALSE,
          top |-> [top EXCEPT !.remaining = @ - 1, !.next = 0, !.in_item = TRUE]]
    ELSE [event |-> Event("ReplicationEnd"), pop |-> TRUE, top |-> top]

\* list_end_event, were the end of every sequence the end of the subset.
list_end_event_subset(rest, is_compressed) ==
    IF is_compressed THEN Event("Eof") ELSE Event("SubsetEnd")

\* process_next_descriptor at the end of a sequence's child list, after the
\* pop: the event by what is left of the stack.
list_end_event(rest, is_compressed) ==
    IF rest # << >> THEN Event("SequenceEnd")
    ELSE IF is_compressed THEN Event("Eof")
    ELSE Event("SubsetEnd")

\* handle_data_descriptor: the effective width (a u32) and scale (an i8).
bit_width_of(b, w_offset) == I32AsU32(b.bits + w_offset)

scale_of(b, s_offset) == AsI8(b.scale + s_offset)

\* decode_value with the all-ones mask computed in 32 bits,
\* `(1u32 << bit_width) - 1` with a wrapping shift: the mask of 32 bits is 0.
decode_value_mask32(v_raw, bit_width, scale, ref_value, checks) ==
    IF v_raw = (IF bit_width = 32 THEN 0 ELSE AllOnes(bit_width))
    THEN [ok |-> TRUE, value |-> Missing]
    ELSE IF scale = 0 THEN
        IF checks /\ OverflowsAddI32(U32AsI32(v_raw), ref_value) THEN [ok |-> FALSE]
        ELSE [ok |-> TRUE, value |-> Integer(WrapAddI32(U32AsI32(v_raw), ref_value))]
    ELSE IF checks /\ scale = -128 THEN [ok |-> FALSE]
    ELSE [ok |-> TRUE, value |-> Decimal(WrapAddI32(v_raw, ref_value), AsI8(-scale))]

\* The value of a word of bit_width <= 32 bits.  checks: the build checks
\* integer overflow, and then `v_raw as i32 + ref_value` and `-scale` panic
\* where they overflow (ok |-> FALSE).
decode_value(v_raw, bit_width, scale, ref_value, checks) ==
    IF v_raw = AllOnes(bit_width) THEN [ok |-> TRUE, value |-> Missing]
    ELSE IF scale = 0 THEN
        IF checks /\ OverflowsAddI32(U32AsI32(v_raw), ref_value) THEN [ok |-> FALSE]
        ELSE [ok |-> TRUE, value |-> Integer(WrapAddI32(U32AsI32(v_raw), ref_value))]
    ELSE IF checks /\ scale = -128 THEN [ok |-> FALSE]
    ELSE [ok |-> TRUE, value |-> Decimal(WrapAddI32(v_raw, ref_value), AsI8(-scale))]

\* An outcome of a handler: what read_event returns, the bits consumed, what
\* was read.
Outcome(res, bits, rawv) == [res |-> res, bits |-> bits, raw |-> rawv]

\* A read that meets the end of the byte source.
IoFailure == Outcome(Err("Io"), 0, NoRead)

DataEvent(idx, b, value) ==
    [kind |-> "Data", idx |-> idx, xy |-> b.xy, value |-> value]

\* handle_data_descriptor, bit_width in 0..=32, not compressed.
data_word(idx, b, bit_width, scale, checks) ==
    (IF bit_width > 0 THEN {IoFailure} ELSE {})
    \cup { LET d == decode_value(v_raw, bit_width, scale, b.reference_value, checks)
           IN Outcome(IF d.ok THEN DataEvent(idx, b, d.value) ELSE Panic,
                      bit_width,
                      [what |-> "word", v |-> v_raw, width |-> bit_width,
                       scale |-> scale, ref |-> b.reference_value])
           : v_raw \in SampleBits(bit_width) }

\* u32 addition overflows: the 32-bit sum, read as unsigned, is below an
\* operand.
OverflowsAddU32(a, b) ==
    LET sum == WrapAddI32(a, b)
    IN IF (a < 0) = (sum < 0) THEN sum < a ELSE sum >= 0

\* The widths nbinc a successful 6-bit read is drawn from, and the
\* increments read for N subsets.
SampleNbinc == {0, 3, 40}

SampleIncs(nbinc, n) == [1..n -> {1, 2, AllOnes(nbinc)}]

\* compressed_word giving one value for all subsets when nbinc = 0 (`vec![v]`
\* for `vec![v; number_of_subsets]`).
compressed_word_single(idx, b, bit_width, scale, n, checks) ==
    LET ev(values) == [kind |-> "CompressedData", idx |-> idx, xy |-> b.xy,
                       values |-> values]
        rd(local, nbinc, incs) ==
            [what |-> "compressed", local |-> local, nbinc |-> nbinc, incs |-> incs,
             width |-> bit_width, scale |-> scale, ref |-> b.reference_value]
        same(local) ==
            LET d == decode_value(local, bit_width, scale, b.reference_value, checks)
            IN Outcome(IF d.ok THEN ev(<< d.value >>) ELSE Panic,
                       bit_width + 6, rd(local, 0, << >>))
        each(local, nbinc, incs) ==
            LET sumOk(i) == ~(checks /\ OverflowsAddU32(local, incs[i]))
                d(i) == decode_value(WrapAddI32(local, incs[i]), bit_width, scale,
                                     b.reference_value, checks)
            IN Outcome(IF \A i \in 1..n : sumOk(i) /\ d(i).ok
                       THEN ev([i \in 1..n |-> d(i).value]) ELSE Panic,
                       bit_width + 6 + n * nbinc, rd(local, nbinc, incs))
    IN {IoFailure}
       \cup { same(local) : local \in SampleBits(bit_width) }
       \cup UNION { UNION { IF nbinc > 32 THEN {IoFailure}
                            ELSE { each(local, nbinc, incs) : incs \in SampleIncs(nbinc, n) }
                            : nbinc \in SampleNbinc \ {0} }
                    : local \in SampleBits(bit_width) }

\* handle_data_descriptor, bit_width in 0..=32, compressed: the local
\* reference, nbinc, and with nbinc # 0 one increment per subset.
compressed_word(idx, b, bit_width, scale, n, checks) ==
    LET ev(values) == [kind |-> "CompressedData", idx |-> idx, xy |-> b.xy,
                       values |-> values]
        rd(local, nbinc, incs) ==
            [what |-> "compressed", local |-> local, nbinc |-> nbinc, incs |-> incs,
             width |-> bit_width, scale |-> scale, ref |-> b.reference_value]
        same(local) ==
            LET d == decode_value(local, bit_width, scale, b.reference_value, checks)
            IN Outcome(IF d.ok THEN ev([i \in 1..n |-> d.value]) ELSE Panic,
                       bit_width + 6, rd(local, 0, << >>))
        each(local, nbinc, incs) ==
            LET sumOk(i) == ~(checks /\ OverflowsAddU32(local, incs[i]))
                d(i) == decode_value(WrapAddI32(local, incs[i]), bit_width, scale,
                                     b.reference_value, checks)
            IN Outcome(IF \A i \in 1..n : sumOk(i) /\ d(i).ok
                       THEN ev([i \in 1..n |-> d(i).value]) ELSE Panic,
                       bit_width + 6 + n * nbinc, rd(local, nbinc, incs))
    IN {IoFailure}
       \cup { same(local) : local \in SampleBits(bit_width) }
       \cup UNION { UNION { IF nbinc > 32 THEN {IoFailure}
                            ELSE { each(local, nbinc, incs) : incs \in SampleIncs(nbinc, n) }
                            : nbinc \in SampleNbinc \ {0} }
                    : local \in SampleBits(bit_width) }

\* bit_width / 8 on the u32 bit_width, a multiple of 8 (2^32 is one too).
U32Div8(p) == IF p >= 0 THEN p \div 8 ELSE 536870912 + (p \div 8)

\* data_string without the test for bytes that are all 0xFF.
data_string_no_missing(idx, b, bit_width, is_compressed) ==
    {IoFailure}
    \cup { Outcome(IF ~Utf8Ok(vec) THEN Err("Invalid")
                   ELSE IF is_compressed THEN Err("NotSupported")
                   ELSE DataEvent(idx, b, String(vec)),
                   bit_width,
                   [what |-> "bytes", vec |-> vec])
           : vec \in SampleBytes(U32Div8(bit_width)) }

\* handle_data_descriptor, bit_width above 32 and a multiple of 8.
data_string(idx, b, bit_width, is_compressed) ==
    {IoFailure}
    \cup { Outcome(IF AllFF(vec) THEN DataEvent(idx, b, Missing)
                   ELSE IF ~Utf8Ok(vec) THEN Err("Invalid")
                   ELSE IF is_compressed THEN Err("NotSupported")
                   ELSE DataEvent(idx, b, String(vec)),
                   bit_width,
                   [what |-> "bytes", vec |-> vec])
           : vec \in SampleBytes(U32Div8(bit_width)) }

\* handle_data_descriptor without the test `bit_width % 8 == 0`.
handle_data_descriptor_any_width(idx, b, w_offset, s_offset, spec, checks) ==
    LET bit_width == bit_width_of(b, w_offset)
        scale == scale_of(b, s_offset)
    IN IF U32InWordRange(bit_width) THEN
            IF spec.is_compressed
            THEN compressed_word(idx, b, bit_width, scale, spec.number_of_subsets, checks)
            ELSE data_word(idx, b, bit_width, scale, checks)
       ELSE data_string(idx, b, bit_width, spec.is_compressed)

\* handle_data_descriptor: every outcome, over what the stream may hold.
handle_data_descriptor(idx, b, w_offset, s_offset, spec, checks) ==
    LET bit_width == bit_width_of(b, w_offset)
        scale == scale_of(b, s_offset)
    IN IF U32InWordRange(bit_width) THEN
            IF spec.is_compressed
            THEN compressed_word(idx, b, bit_width, scale, spec.number_of_subsets, checks)
            ELSE data_word(idx, b, bit_width, scale, checks)
       ELSE IF bit_width % 8 = 0 THEN data_string(idx, b, bit_width, spec.is_compressed)
       ELSE {Outcome(Err("Invalid"), 0, NoRead)}

\* The counts a successful read of a delayed replication count is drawn
\* from: the values of delayed_bits bits, up to MaxCount.
SampleCount(delayed_bits) ==
    {c \in 0..MaxCount : delayed_bits >= 16 \/ c < Pow2(delayed_bits)}

\* handle_replication_descriptor reading every delayed count as 8 bits,
\* whatever delayed_bits is.
handle_replication_descriptor_byte(idx, y, elements, delayed_bits) ==
    LET started(count, bits, rawv) ==
            [res |-> [kind |-> "ReplicationStart", idx |-> idx, count |-> count],
             bits |-> bits, raw |-> rawv,
             push |-> << new_replication(elements, count) >>]
    IN IF y = 0
       THEN {[res |-> Err("Io"), bits |-> 0, raw |-> NoRead, push |-> << >>]}
            \cup {started(count, 8, [what |-> "count", v |-> count])
                     : count \in SampleCount(delayed_bits)}
       ELSE {started(y, 0, NoRead)}

\* handle_replication_descriptor: every outcome, with the entry pushed.  A
\* delayed count (y = 0) is read here, as delayed_bits bits of the stream.
handle_replication_descriptor(idx, y, elements, delayed_bits) ==
    LET started(count, bits, rawv) ==
            [res |-> [kind |-> "ReplicationStart", idx |-> idx, count |-> count],
             bits |-> bits, raw |-> rawv,
             push |-> << new_replication(elements, count) >>]
    IN IF y = 0
       THEN {[res |-> Err("Io"), bits |-> 0, raw |-> NoRead, push |-> << >>]}
            \cup {started(count, delayed_bits, [what |-> "count", v |-> count])
                     : count \in SampleCount(delayed_bits)}
       ELSE {started(y, 0, NoRead)}

None == [some |-> FALSE]

Some(xy) == [some |-> TRUE, xy |-> xy]

\* handle_operator_descriptor with the two offsets exchanged: (1,y) writes
\* the scale offset and (2,y) the width offset.
handle_operator_descriptor_swapped(idx, xy, w_offset, s_offset, t_operator) ==
    LET handled == [kind |-> "OperatorHandled", idx |-> idx, x |-> xy.x, value |-> xy.y]
        state(w, s, t) == [width_offset |-> w, scale_offset |-> s,
                           temporary_operator |-> t]
    IN IF xy.x = 1 /\ xy.y = 0 THEN [res |-> handled, st |-> state(w_offset, 0, t_operator)]
       ELSE IF xy.x = 1
       THEN [res |-> handled, st |-> state(w_offset, AsI8(xy.y - 128), t_operator)]
       ELSE IF xy.x = 2 /\ xy.y = 0
       THEN [res |-> handled, st |-> state(0, s_offset, t_operator)]
       ELSE IF xy.x = 2
       THEN [res |-> handled, st |-> state(AsI8(xy.y - 128), s_offset, t_operator)]
       ELSE IF xy.x = 6
       THEN [res |-> handled, st |-> state(w_offset, s_offset, Some(xy))]
       ELSE [res |-> Err("NotSupported"), st |-> state(w_offset, s_offset, t_operator)]

\* handle_operator_descriptor accepting every operator: one it does not know
\* is latched like (6,y) and reported as handled.
handle_operator_descriptor_lenient(idx, xy, w_offset, s_offset, t_operator) ==
    LET handled == [kind |-> "OperatorHandled", idx |-> idx, x |-> xy.x, value |-> xy.y]
        state(w, s, t) == [width_offset |-> w, scale_offset |-> s,
                           temporary_operator |-> t]
    IN IF xy.x = 1 /\ xy.y = 0 THEN [res |-> handled, st |-> state(0, s_offset, t_operator)]
       ELSE IF xy.x = 1
       THEN [res |-> handled, st |-> state(AsI8(xy.y - 128), s_offset, t_operator)]
       ELSE IF xy.x = 2 /\ xy.y = 0
       THEN [res |-> handled, st |-> state(w_offset, 0, t_operator)]
       ELSE IF xy.x = 2
       THEN [res |-> handled, st |-> state(w_offset, AsI8(xy.y - 128), t_operator)]
       ELSE [res |-> handled, st |-> state(w_offset, s_offset, Some(xy))]

\* handle_operator_descriptor: the result and the operator state afterwards.
handle_operator_descriptor(idx, xy, w_offset, s_offset, t_operator) ==
    LET handled == [kind |-> "OperatorHandled", idx |-> idx, x |-> xy.x, value |-> xy.y]
        state(w, s, t) == [width_offset |-> w, scale_offset |-> s,
                           temporary_operator |-> t]
    IN IF xy.x = 1 /\ xy.y = 0 THEN [res |-> handled, st |-> state(0, s_offset, t_operator)]
       ELSE IF xy.x = 1
       THEN [res |-> handled, st |-> state(AsI8(xy.y - 128), s_offset, t_operator)]
       ELSE IF xy.x = 2 /\ xy.y = 0
       THEN [res |-> handled, st |-> state(w_offset, 0, t_operator)]
       ELSE IF xy.x = 2
       THEN [res |-> handled, st |-> state(w_offset, AsI8(xy.y - 128), t_operator)]
       ELSE IF xy.x = 6
       THEN [res |-> handled, st |-> state(w_offset, s_offset, Some(xy))]
       ELSE [res |-> Err("NotSupported"), st |-> state(w_offset, s_offset, t_operator)]

\* handle_sequence_descriptor: the event, with the entry pushed.
handle_sequence_descriptor(idx, d, elements) ==
    [res |-> [kind |-> "SequenceStart", idx |-> idx, xy |-> d],
     push |-> << new_sequence(elements) >>]


\* ------------------------------------------------------------------------
\* Init: DataSpec::from_data_description and DataReader::new
\* ------------------------------------------------------------------------

\* A section not read.
NoSection == [read |-> FALSE]

\* What the stream holds where a section read begins: the magic (section 0),
\* the declared length, the edition byte (section 0), and the number of bytes
\* the stream still holds.
Wire(section, magic, length, edition_number, avail) ==
    [section |-> section, magic |-> magic, length |-> length,
     edition_number |-> edition_number, avail |-> avail]

NoWire == Wire("None", << >>, 0, 0, 0)

\* No Value is being formatted.
NoValue == [tag |-> "None"]

NoText == [kind |-> "None"]

NoFmt == fmt_value = NoValue /\ fmt_text = NoText

\* HeaderSections::read has not been entered.
NoHeader ==
    /\ header_stage = "Indicator"
    /\ header_result = "Running"
    /\ header_read = 0
    /\ header_wire = NoWire
    /\ indicator_section = NoSection
    /\ identification_section = NoSection
    /\ optional_section = NoSection
    /\ data_description_section = NoSection

\* ensure_end_section has not been entered.
NoEnd ==
    /\ edition = 0
    /\ source = << >>
    /\ end_stage = "None"
    /\ end_result = "Running"
    /\ end_read = 0

\* DataReader::new over the DataSpec of a message of one of `subsets` subsets
\* and one of `programs`; t: the second DataReader, or none; cols: the column
\* materializer, or none.
InitReaders(t, cols, subsets, programs) ==
    /\ phase = "Data"
    /\ NoHeader
    /\ NoEnd
    /\ \E descriptors \in programs, n \in subsets, c \in BOOLEAN :
          LET r == resolve_descriptors(descriptors)
          IN /\ r.ok
             /\ section_descriptors = descriptors
             /\ pos = Len(descriptors)
             /\ resolved = r.val
             /\ outcome = "Ok"
             /\ data_spec = [number_of_subsets |-> n, is_compressed |-> c,
                             root_descriptors |-> r.val]
    /\ overflow_checks \in BOOLEAN
    /\ current_subset_index = 0
    /\ stack = << >>
    /\ temporary_operator = None
    /\ scale_offset = 0
    /\ width_offset = 0
    /\ reader = 0
    /\ last = Event("None")
    /\ consumed = 0
    /\ raw = NoRead
    /\ first = "None"
    /\ subset_counter = 0
    /\ sequence_counter = 0
    /\ replication_counter = 0
    /\ replication_item_counter = 0
    /\ open = << >>
    /\ closed = NoEntry
    /\ nest_ok = TRUE
    /\ subset_starts = 0
    /\ compressed_starts = 0
    /\ twin = t
    /\ columns = cols
    /\ NoFmt

Init == InitReaders(NoTwin, NoColumns, 0..MaxSubsets, Programs)

\* ------------------------------------------------------------------------
\* read_event as a function of the DataReader and of what the stream holds
\* ------------------------------------------------------------------------

\* AfterCall, were the bit position of the reader left where it was.
AfterCall_position_kept(r, entries, o) ==
    [raw |-> o.raw,
     reader |-> [r EXCEPT !.stack = entries, !.last = o.res]]

\* A DataReader `r` after a call that left it the stack `entries`, consumed
\* `o.bits` bits and returned `o.res`; with what the call read.
AfterCall(r, entries, o) ==
    [raw |-> o.raw,
     reader |-> [r EXCEPT !.stack = entries,
                          !.reader = (@ + o.bits) % 8,
                          !.last = o.res]]

\* read_event on the DataReader `r`: one result for each thing the stream may
\* hold where the call reads.
read_event(r, spec, checks) ==
    LET s == r.stack
        top == s[Len(s)]
        advanced == [s EXCEPT ![Len(s)] = [top EXCEPT !.next = @ + 1]]
    IN IF s = << >>
       THEN IF at_eof(r.current_subset_index, spec)
            THEN { AfterCall(r, s, Outcome(Event("Eof"), 0, NoRead)) }
            ELSE { AfterCall([r EXCEPT !.current_subset_index = @ + 1],
                             << new_sequence(spec.root_descriptors) >>,
                             Outcome(start_event(r.current_subset_index, spec),
                                     0, NoRead)) }
       ELSE IF top.next >= Len(top.descriptors)
       THEN IF top.ty = "Replication"
            THEN LET step == replication_step(top)
                 IN { AfterCall(r, IF step.pop THEN Pop(s)
                                   ELSE [s EXCEPT ![Len(s)] = step.top],
                                Outcome(step.event, 0, NoRead)) }
            ELSE { AfterCall(r, Pop(s),
                             Outcome(list_end_event(Pop(s), spec.is_compressed),
                                     0, NoRead)) }
       ELSE LET d == top.descriptors[top.next + 1]
            IN CASE d.t = "Data" ->
                      { AfterCall(r, advanced, o) :
                          o \in handle_data_descriptor(top.next, d.b, r.width_offset,
                                                        r.scale_offset, spec, checks) }
                 [] d.t = "Replication" ->
                      { AfterCall(r, advanced \o o.push, o) :
                          o \in handle_replication_descriptor(top.next, d.y,
                                                               d.descriptors,
                                                               d.delayed_bits) }
                 [] d.t = "Operator" ->
                      LET o == handle_operator_descriptor(top.next, d.xy,
                                                          r.width_offset, r.scale_offset,
                                                          r.temporary_operator)
                      IN { AfterCall([r EXCEPT
                                        !.width_offset = o.st.width_offset,
                                        !.scale_offset = o.st.scale_offset,
                                        !.temporary_operator = o.st.temporary_operator],
                                     advanced, Outcome(o.res, 0, NoRead)) }
                 [] d.t = "Sequence" ->
                      LET o == handle_sequence_descriptor(top.next, d.d, d.descriptors)
                      IN { AfterCall(r, advanced \o o.push,
                                     Outcome(o.res, 0, NoRead)) }

\* The second DataReader is called where the first is, and its stream holds
\* what the first one's held (`rawv`).
TwinReads(rawv) ==
    LET results == { c \in read_event(twin, data_spec, overflow_checks) :
                        c.raw = rawv }
    IN IF twin = NoTwin THEN twin' = twin
       ELSE IF results = {} THEN twin' = [twin EXCEPT !.last = [kind |-> "Unread"]]
       ELSE \E c \in results : twin' = c.reader

\* One read_event call on each of the two DataReaders.
Returns(res, bits, rawv) == Return(res, bits, rawv) /\ TwinReads(rawv)

\* ------------------------------------------------------------------------
\* read_event, one action per path through it
\* ------------------------------------------------------------------------

\* The caller may call read_event: no call has failed (a returned error
\* leaves the reader unusable, a panic ends the process).
Callable == last.kind \notin {"Err", "Panic"}

AtListEnd == Top.next >= Len(Top.descriptors)

\* The child process_next_descriptor is about to handle, and its position.
CurrentDesc == Top.descriptors[Top.next + 1]

\* The stack once `top.next += 1` is done.
Advanced == WithTop([Top EXCEPT !.next = @ + 1])

\* read_event with an empty stack at the end of the message.
ReadEventEof ==
    /\ Callable
    /\ stack = << >>
    /\ at_eof(current_subset_index, data_spec)
    /\ Returns(Event("Eof"), 0, NoRead)
    /\ UNCHANGED << fileVars, resolverVars, data_spec, overflow_checks, current_subset_index, stack,
                    temporary_operator, width_offset, scale_offset >>

\* ReadEventStart, were the operator offsets reset at the start of every
\* subset.
ReadEventStart_reset ==
    /\ Callable
    /\ stack = << >>
    /\ ~at_eof(current_subset_index, data_spec)
    /\ stack' = << new_sequence(data_spec.root_descriptors) >>
    /\ current_subset_index' = current_subset_index + 1
    /\ Returns(start_event(current_subset_index, data_spec), 0, NoRead)
    /\ width_offset' = 0
    /\ scale_offset' = 0
    /\ UNCHANGED << fileVars, resolverVars, data_spec, overflow_checks, temporary_operator >>

\* ReadEventStart, were the reader moved to the next byte boundary before
\* every subset.
ReadEventStart_aligned ==
    /\ Callable
    /\ stack = << >>
    /\ ~at_eof(current_subset_index, data_spec)
    /\ stack' = << new_sequence(data_spec.root_descriptors) >>
    /\ current_subset_index' = current_subset_index + 1
    /\ Returns(start_event(current_subset_index, data_spec), (8 - reader) % 8, NoRead)
    /\ UNCHANGED << fileVars, resolverVars, data_spec, overflow_checks, temporary_operator, width_offset,
                    scale_offset >>

\* read_event with an empty stack before a subset (or the compressed walk).
ReadEventStart ==
    /\ Callable
    /\ stack = << >>
    /\ ~at_eof(current_subset_index, data_spec)
    /\ stack' = << new_sequence(data_spec.root_descriptors) >>
    /\ current_subset_index' = current_subset_index + 1
    /\ Returns(start_event(current_subset_index, data_spec), 0, NoRead)
    /\ UNCHANGED << fileVars, resolverVars, data_spec, overflow_checks, temporary_operator, width_offset,
                    scale_offset >>

\* process_next_descriptor: the top entry is a replication at the end of its
\* child list (an item ends, an item starts, or the replication ends).
ReplicationStep ==
    /\ Callable
    /\ stack # << >>
    /\ Top.ty = "Replication"
    /\ AtListEnd
    /\ LET step == replication_step(Top)
       IN /\ stack' = IF step.pop THEN Pop(stack) ELSE WithTop(step.top)
          /\ Returns(step.event, 0, NoRead)
    /\ UNCHANGED << fileVars, resolverVars, data_spec, overflow_checks, current_subset_index,
                    temporary_operator, width_offset, scale_offset >>

\* process_next_descriptor: the top entry is a sequence at the end of its
\* child list.
ListEnd ==
    /\ Callable
    /\ stack # << >>
    /\ Top.ty = "Sequence"
    /\ AtListEnd
    /\ stack' = Pop(stack)
    /\ Returns(list_end_event(Pop(stack), data_spec.is_compressed), 0, NoRead)
    /\ UNCHANGED << fileVars, resolverVars, data_spec, overflow_checks, current_subset_index,
                    temporary_operator, width_offset, scale_offset >>

\* process_next_descriptor on a Data child.
HandleData ==
    /\ Callable
    /\ stack # << >>
    /\ ~AtListEnd
    /\ CurrentDesc.t = "Data"
    /\ \E o \in handle_data_descriptor(Top.next, CurrentDesc.b, width_offset,
                                        scale_offset, data_spec, overflow_checks) :
          Returns(o.res, o.bits, o.raw)
    /\ stack' = Advanced
    /\ UNCHANGED << fileVars, resolverVars, data_spec, overflow_checks, current_subset_index,
                    temporary_operator, width_offset, scale_offset >>

\* process_next_descriptor on a Replication child.
HandleReplication ==
    /\ Callable
    /\ stack # << >>
    /\ ~AtListEnd
    /\ CurrentDesc.t = "Replication"
    /\ \E o \in handle_replication_descriptor(Top.next, CurrentDesc.y,
                                               CurrentDesc.descriptors,
                                               CurrentDesc.delayed_bits) :
          /\ stack' = Advanced \o o.push
          /\ Returns(o.res, o.bits, o.raw)
    /\ UNCHANGED << fileVars, resolverVars, data_spec, overflow_checks, current_subset_index,
                    temporary_operator, width_offset, scale_offset >>

\* process_next_descriptor on an Operator child.
HandleOperator ==
    /\ Callable
    /\ stack # << >>
    /\ ~AtListEnd
    /\ CurrentDesc.t = "Operator"
    /\ LET o == handle_operator_descriptor(Top.next, CurrentDesc.xy, width_offset,
                                           scale_offset, temporary_operator)
       IN /\ width_offset' = o.st.width_offset
          /\ scale_offset' = o.st.scale_offset
          /\ temporary_operator' = o.st.temporary_operator
          /\ Returns(o.res, 0, NoRead)
    /\ stack' = Advanced
    /\ UNCHANGED << fileVars, resolverVars, data_spec, overflow_checks, current_subset_index >>

\* process_next_descriptor on a Sequence child.
HandleSequence ==
    /\ Callable
    /\ stack # << >>
    /\ ~AtListEnd
    /\ CurrentDesc.t = "Sequence"
    /\ LET o == handle_sequence_descriptor(Top.next, CurrentDesc.d,
                                           CurrentDesc.descriptors)
       IN /\ stack' = Advanced \o o.push
          /\ Returns(o.res, 0, NoRead)
    /\ UNCHANGED << fileVars, resolverVars, data_spec, overflow_checks, current_subset_index,
                    temporary_operator, width_offset, scale_offset >>

Next ==
    \/ ReadEventEof
    \/ ReadEventStart
    \/ ReplicationStep
    \/ ListEnd
    \/ HandleData
    \/ HandleReplication
    \/ HandleOperator
    \/ HandleSequence

Spec == Init /\ [][Next]_vars

\* Two DataReader instances built over equal sources and an equal DataSpec,
\* of a message of less than MaxSubsets subsets.
InitTwin == InitReaders(NewReader, NoColumns, 0..(MaxSubsets - 1), Programs)

SpecTwin == InitTwin /\ [][Next]_vars

\* Descriptor lists in which an element comes twice in one parent: in the
\* subset, in a replication item, and next to a sequence that holds it too.
RepeatedPrograms ==
    { << Descriptor(0, 1, 2), Descriptor(0, 1, 1), Descriptor(0, 1, 2) >>,
      << Descriptor(1, 2, 2), Descriptor(0, 1, 2), Descriptor(0, 1, 2) >>,
      << Descriptor(0, 1, 1), Descriptor(3, 1, 1), Descriptor(0, 1, 1) >> }

\* convert_to_arrow over a new DataReader.
InitColumns ==
    InitReaders(NoTwin, NewColumns, 0..MaxSubsets, Programs \cup RepeatedPrograms)

SpecColumns == InitColumns /\ [][Next]_vars

\* ------------------------------------------------------------------------
\* Types
\* ------------------------------------------------------------------------

TypeOK ==
    /\ current_subset_index \in 0..MaxU16
    /\ width_offset \in -128..127
    /\ scale_offset \in -128..127
    /\ reader \in 0..7
    /\ \A i \in 1..Len(stack) : stack[i].next \in 0..Len(stack[i].descriptors)


\* ------------------------------------------------------------------------
\* resolve_descriptors, one action per path through an iteration of its loop
\* ------------------------------------------------------------------------

\* The descriptors the resolver's lists are made of: an element, the four
\* delayed-count markers (of which 0-31-001 is in Table B), replications with
\* a delayed and with a fixed count over one and two descriptors, an operator,
\* a sequence, and a sequence that is not in Table D.
RawDescriptors ==
    { Descriptor(0, 1, 1),
      Descriptor(0, 31, 0), Descriptor(0, 31, 1), Descriptor(0, 31, 2),
      Descriptor(0, 31, 3),
      Descriptor(1, 1, 0), Descriptor(1, 1, 2), Descriptor(1, 2, 1),
      Descriptor(2, 1, 129),
      Descriptor(3, 1, 1), Descriptor(3, 9, 9) }

RawLists == UNION {[1..n -> RawDescriptors] : n \in 0..MaxLen}

\* No DataSpec and no DataReader exist while the descriptors are resolved.
NoDecoder ==
    /\ data_spec = [number_of_subsets |-> 0, is_compressed |-> FALSE,
                    root_descriptors |-> << >>]
    /\ overflow_checks = FALSE
    /\ current_subset_index = 0
    /\ stack = << >>
    /\ temporary_operator = None
    /\ scale_offset = 0
    /\ width_offset = 0
    /\ reader = 0
    /\ last = Event("None")
    /\ consumed = 0
    /\ raw = NoRead
    /\ first = "None"
    /\ subset_counter = 0
    /\ sequence_counter = 0
    /\ replication_counter = 0
    /\ replication_item_counter = 0
    /\ open = << >>
    /\ closed = NoEntry
    /\ nest_ok = TRUE
    /\ subset_starts = 0
    /\ compressed_starts = 0
    /\ twin = NoTwin
    /\ columns = NoColumns

\* resolve_descriptors is entered with a descriptor list.
InitResolve ==
    /\ phase = "Resolve"
    /\ NoHeader
    /\ NoEnd
    /\ section_descriptors \in RawLists
    /\ pos = 0
    /\ resolved = << >>
    /\ outcome = "Running"
    /\ NoDecoder
    /\ NoFmt

\* The iteration has run: the loop goes on, or the function has returned the
\* error (or the process has panicked).
Iterated(step) ==
    IF step.ok
    THEN /\ pos' = step.pos
         /\ resolved' = step.val
         /\ UNCHANGED outcome
    ELSE /\ outcome' = step.err
         /\ UNCHANGED << pos, resolved >>

\* The loop is at a descriptor.
InLoop == outcome = "Running" /\ pos < Len(section_descriptors)

\* An iteration on an f=1 descriptor.
ResolveReplication ==
    /\ InLoop
    /\ section_descriptors[pos + 1].f = 1
    /\ Iterated(resolve_replication(section_descriptors, pos, resolved))
    /\ UNCHANGED << fileVars, section_descriptors, decoderVars >>

\* An iteration on any other descriptor.
ResolveOther ==
    /\ InLoop
    /\ section_descriptors[pos + 1].f # 1
    /\ Iterated(resolve_other(section_descriptors, pos, resolved))
    /\ UNCHANGED << fileVars, section_descriptors, decoderVars >>

\* The loop ends: Ok(resolved).
ResolveReturn ==
    /\ outcome = "Running"
    /\ pos >= Len(section_descriptors)
    /\ outcome' = "Ok"
    /\ UNCHANGED << fileVars, section_descriptors, pos, resolved, decoderVars >>

NextResolve ==
    \/ ResolveReplication
    \/ ResolveOther
    \/ ResolveReturn

SpecResolve == InitResolve /\ [][NextResolve]_vars

\* ------------------------------------------------------------------------
\* HeaderSections::read, one action per section read
\* ------------------------------------------------------------------------

\* three_bytes_to_u32
three_bytes_to_u32(bytes) == bytes[1] * 65536 + bytes[2] * 256 + bytes[3]

\* b"BUFR"
BUFR == << 66, 85, 70, 82 >>

\* The magic bytes a stream may begin with: "BUFR", "BUFS", "7777".
SampleMagic == { BUFR, << 66, 85, 70, 83 >>, << 55, 55, 55, 55 >> }

\* The three length bytes a section may begin with: the lengths around the
\* section's minimum, and 256.
SampleLenBytes(minimum) ==
    { << 0, 0, minimum - 1 >>, << 0, 0, minimum >>, << 0, 0, minimum + 1 >>,
      << 0, 1, 0 >> }

\* The bytes the stream may still hold where a section of that declared
\* length begins: up to 8, one less than the length, the length or more.
SampleAvail(length) == {a \in 0..length : a <= 8 \/ a >= length - 1} \cup {length}

\* Descriptor::read: the descriptor of a big-endian u16.
DescriptorOfWord(val) ==
    Descriptor(val \div 16384, (val \div 256) % 64, val % 256)

\* The u16 that holds a descriptor.
WordOf(desc) == desc.f * 16384 + desc.x * 256 + desc.y

\* The descriptor words a data-description section may hold.
SampleWords ==
    { << >>,
      << WordOf(Descriptor(0, 1, 4)), WordOf(Descriptor(0, 1, 1)) >>,
      << WordOf(Descriptor(2, 1, 129)), WordOf(Descriptor(0, 1, 3)) >>,
      << WordOf(Descriptor(3, 1, 2)) >> }

\* IndicatorSection::read with a bad magic reported as Invalid.
read_indicator_section_invalid_magic(magic, len_bytes, edition_number, avail) ==
    IF avail < 4 THEN Failed("Io")
    ELSE IF magic # BUFR THEN Failed("Invalid")
    ELSE IF avail < 8 THEN Failed("Io")
    ELSE [ok |-> TRUE, read |-> 8,
          val |-> [read |-> TRUE, total_length |-> three_bytes_to_u32(len_bytes),
                   edition_number |-> edition_number]]

\* IndicatorSection::read on a stream that holds avail bytes.
read_indicator_section(magic, len_bytes, edition_number, avail) ==
    IF avail < 4 THEN Failed("Io")
    ELSE IF magic # BUFR THEN Failed("Fatal")
    ELSE IF avail < 7 THEN Failed("Io")
    ELSE IF avail < 8 THEN Failed("Io")
    ELSE [ok |-> TRUE, read |-> 8,
          val |-> [read |-> TRUE, total_length |-> three_bytes_to_u32(len_bytes),
                   edition_number |-> edition_number]]

\* IdentificationSection::read with the minimum of edition 3 for both editions.
read_identification_section_v3_minimum(fixed, len_bytes, flags, avail) ==
    LET section_length == three_bytes_to_u32(len_bytes)
    IN IF avail < 3 THEN Failed("Io")
       ELSE IF section_length < 17 THEN Failed("Fatal")
       ELSE IF avail < section_length THEN Failed("Io")
       ELSE [ok |-> TRUE, read |-> section_length,
             val |-> [read |-> TRUE, section_length |-> section_length,
                      flags |-> [has_optional_section |-> (flags \div 128) % 2 = 1]]]

\* IdentificationSection::read (fixed == 22) and IdentificationSectionV3::read
\* (fixed == 17): the length, the fixed fields with the flags byte, the
\* local-use bytes.
read_identification_section(fixed, len_bytes, flags, avail) ==
    LET section_length == three_bytes_to_u32(len_bytes)
    IN IF avail < 3 THEN Failed("Io")
       ELSE IF section_length < fixed THEN Failed("Fatal")
       ELSE IF avail < section_length THEN Failed("Io")
       ELSE [ok |-> TRUE, read |-> fixed + (section_length - fixed),
             val |-> [read |-> TRUE, section_length |-> section_length,
                      flags |-> [has_optional_section |-> (flags \div 128) % 2 = 1]]]

\* OptionalSection::read with the length checked before the reserved byte is
\* read.
read_optional_section_checked_first(len_bytes, avail) ==
    LET section_length == three_bytes_to_u32(len_bytes)
    IN IF avail < 3 THEN Failed("Io")
       ELSE IF section_length < 4 THEN Failed("Fatal")
       ELSE IF avail < section_length THEN Failed("Io")
       ELSE [ok |-> TRUE, read |-> section_length,
             val |-> [read |-> TRUE, section_length |-> section_length]]

\* OptionalSection::read
read_optional_section(len_bytes, avail) ==
    LET section_length == three_bytes_to_u32(len_bytes)
    IN IF avail < 3 THEN Failed("Io")
       ELSE IF avail < 4 THEN Failed("Io")
       ELSE IF section_length < 4 THEN Failed("Fatal")
       ELSE IF avail < section_length THEN Failed("Io")
       ELSE [ok |-> TRUE, read |-> 3 + 1 + (section_length - 4),
             val |-> [read |-> TRUE, section_length |-> section_length]]

\* DataDescriptionSection::read without the read of the padding.
read_data_description_section_no_padding(len_bytes, number_of_subsets, flags, words, avail) ==
    LET section_length == three_bytes_to_u32(len_bytes)
        descriptor_count == (section_length - 7) \div 2
    IN IF avail < 3 THEN Failed("Io")
       ELSE IF avail < 4 THEN Failed("Io")
       ELSE IF section_length < 7 THEN Failed("Fatal")
       ELSE IF avail < section_length THEN Failed("Io")
       ELSE [ok |-> TRUE, read |-> 3 + 1 + 2 + 1 + 2 * descriptor_count,
             val |-> [read |-> TRUE, section_length |-> section_length,
                      number_of_subsets |-> number_of_subsets,
                      flags |-> [is_observed_data |-> (flags \div 128) % 2 = 1,
                                 is_compressed |-> (flags \div 64) % 2 = 1],
                      descriptors |-> [i \in 1..descriptor_count |->
                                          DescriptorOfWord(words[i])]]]

\* DataDescriptionSection::read; words: the u16 the stream holds after the
\* flags byte.  The bytes read: the length, the reserved byte, the subset
\* count, the flags, the descriptors, the padding.
read_data_description_section(len_bytes, number_of_subsets, flags, words, avail) ==
    LET section_length == three_bytes_to_u32(len_bytes)
        descriptor_count == (section_length - 7) \div 2
        padding_len == section_length - 7 - 2 * descriptor_count
    IN IF avail < 3 THEN Failed("Io")
       ELSE IF avail < 4 THEN Failed("Io")
       ELSE IF section_length < 7 THEN Failed("Fatal")
       ELSE IF avail < section_length THEN Failed("Io")
       ELSE [ok |-> TRUE, read |-> 3 + 1 + 2 + 1 + 2 * descriptor_count + padding_len,
             val |-> [read |-> TRUE, section_length |-> section_length,
                      number_of_subsets |-> number_of_subsets,
                      flags |-> [is_observed_data |-> (flags \div 128) % 2 = 1,
                                 is_compressed |-> (flags \div 64) % 2 = 1],
                      descriptors |-> [i \in 1..descriptor_count |->
                                          DescriptorOfWord(words[i])]]]

\* HeaderSections::read is entered on a byte source.
InitHeader ==
    /\ phase = "Header"
    /\ NoHeader
    /\ NoEnd
    /\ section_descriptors = << >>
    /\ pos = 0
    /\ resolved = << >>
    /\ outcome = "Running"
    /\ NoDecoder
    /\ NoFmt

\* A section read has returned: the next section is read, or
\* HeaderSections::read returns the error.
SectionRead(r, next, wire) ==
    /\ header_wire' = wire
    /\ IF r.ok
       THEN /\ header_stage' = next
            /\ header_read' = header_read + r.read
            /\ header_result' = IF next = "Done" THEN "Ok" ELSE header_result
       ELSE /\ header_result' = r.err
            /\ UNCHANGED << header_stage, header_read >>

InHeader(stage) ==
    phase = "Header" /\ header_result = "Running" /\ header_stage = stage

\* Section 0.
ReadIndicator ==
    /\ InHeader("Indicator")
    /\ \E magic \in SampleMagic, len_bytes \in SampleLenBytes(37),
          edition_number \in {3, 4, 5}, avail \in SampleAvail(8) :
          LET r == read_indicator_section(magic, len_bytes, edition_number, avail)
          IN /\ SectionRead(r, "Identification",
                            Wire("Indicator", magic, three_bytes_to_u32(len_bytes),
                                 edition_number, avail))
             /\ indicator_section' = IF r.ok THEN r.val ELSE indicator_section
    /\ UNCHANGED << phase, identification_section, optional_section,
                    data_description_section, endVars, resolverVars, decoderVars >>

\* Section 1 of edition 3 (17 fixed bytes) and of edition 4 (22).
ReadIdentification ==
    /\ InHeader("Identification")
    /\ indicator_section.edition_number \in {3, 4}
    /\ LET fixed == IF indicator_section.edition_number = 3 THEN 17 ELSE 22
       IN \E len_bytes \in SampleLenBytes(fixed), flags \in {0, 128} :
            \E avail \in SampleAvail(three_bytes_to_u32(len_bytes)) :
               LET r == read_identification_section(fixed, len_bytes, flags, avail)
               IN /\ SectionRead(r, IF r.ok /\ r.val.flags.has_optional_section
                                    THEN "Optional" ELSE "DataDescription",
                                 Wire("Identification", << >>,
                                      three_bytes_to_u32(len_bytes),
                                      indicator_section.edition_number, avail))
                  /\ identification_section' =
                        IF r.ok THEN r.val ELSE identification_section
    /\ UNCHANGED << phase, indicator_section, optional_section,
                    data_description_section, endVars, resolverVars, decoderVars >>

\* The edition is neither 3 nor 4.
UnsupportedEdition ==
    /\ InHeader("Identification")
    /\ indicator_section.edition_number \notin {3, 4}
    /\ header_result' = "Fatal"
    /\ UNCHANGED << phase, header_stage, header_read, header_wire, indicator_section,
                    identification_section, optional_section,
                    data_description_section, endVars, resolverVars, decoderVars >>

\* Section 2, when the flags of section 1 announce it.
ReadOptional ==
    /\ InHeader("Optional")
    /\ \E len_bytes \in SampleLenBytes(4) :
         \E avail \in SampleAvail(three_bytes_to_u32(len_bytes)) :
            LET r == read_optional_section(len_bytes, avail)
            IN /\ SectionRead(r, "DataDescription",
                              Wire("Optional", << >>, three_bytes_to_u32(len_bytes),
                                   indicator_section.edition_number, avail))
               /\ optional_section' = IF r.ok THEN r.val ELSE optional_section
    /\ UNCHANGED << phase, indicator_section, identification_section,
                    data_description_section, endVars, resolverVars, decoderVars >>

\* Section 3, and Ok(HeaderSections { .. }).
ReadDataDescription ==
    /\ InHeader("DataDescription")
    /\ \E len_bytes \in { << 0, 0, n >> : n \in {6, 7, 8, 9, 11, 12} },
          number_of_subsets \in {0, 1}, flags \in {0, 64}, words \in SampleWords :
         \E avail \in SampleAvail(three_bytes_to_u32(len_bytes)) :
            LET r == read_data_description_section(len_bytes, number_of_subsets,
                                                    flags, words, avail)
            IN /\ 2 * Len(words) >= three_bytes_to_u32(len_bytes) - 8
               /\ SectionRead(r, "Done",
                              Wire("DataDescription", << >>,
                                   three_bytes_to_u32(len_bytes),
                                   indicator_section.edition_number, avail))
               /\ data_description_section' =
                     IF r.ok THEN r.val ELSE data_description_section
    /\ UNCHANGED << phase, indicator_section, identification_section,
                    optional_section, endVars, resolverVars, decoderVars >>

NextHeader ==
    \/ ReadIndicator
    \/ ReadIdentification
    \/ UnsupportedEdition
    \/ ReadOptional
    \/ ReadDataDescription

SpecHeader == InitHeader /\ [][NextHeader]_vars

\* ------------------------------------------------------------------------
\* ensure_end_section, one action per read
\* ------------------------------------------------------------------------

\* The longest stream ensure_end_section is given.
MaxTrailer == 8

\* The bytes of the streams: 0x00, '7', '8'.
SampleTrailerBytes == {0, 55, 56}

\* The streams ensure_end_section is given: every sequence of those bytes of
\* up to MaxTrailer bytes, the stream ending after them.
SampleTrailers == UNION {[1..n -> SampleTrailerBytes] : n \in 0..MaxTrailer}

\* b"777" and b"7777"
Sevens(n) == [i \in 1..n |-> 55]

\* The bytes the reader still holds.
Rest == SubSeq(source, end_read + 1, Len(source))

\* A read of ensure_end_section has failed, n bytes taken from the reader.
EndFailed(kind, n) == [ok |-> FALSE, err |-> kind, read |-> n]

\* The one byte read when edition == 3, with 0x00 refused like any byte that
\* is not '7'.
read_boundary_no_zero(bytes) ==
    IF Len(bytes) < 1 THEN EndFailed("Io", Len(bytes))
    ELSE IF bytes[1] = 55 THEN [ok |-> TRUE, read |-> 1, next |-> "Legacy"]
    ELSE EndFailed("Fatal", 1)

\* The one byte read when edition == 3: 0x00 is skipped, '7' must be followed
\* by "777", any other byte is an error.
read_boundary(bytes) ==
    IF Len(bytes) < 1 THEN EndFailed("Io", Len(bytes))
    ELSE IF bytes[1] = 0 THEN [ok |-> TRUE, read |-> 1, next |-> "Trailer"]
    ELSE IF bytes[1] = 55 THEN [ok |-> TRUE, read |-> 1, next |-> "Legacy"]
    ELSE EndFailed("Fatal", 1)

\* read_exact of n bytes of which all but the last are compared.
read_sevens_but_last(n, bytes, next) ==
    IF Len(bytes) < n THEN EndFailed("Io", Len(bytes))
    ELSE IF SubSeq(bytes, 1, n - 1) # Sevens(n - 1) THEN EndFailed("Fatal", n)
    ELSE [ok |-> TRUE, read |-> n, next |-> next]

\* read_exact of the n bytes that must be b"777" (n = 3) or b"7777" (n = 4);
\* a stream that ends before them is read to its end.
read_sevens(n, bytes, next) ==
    IF Len(bytes) < n THEN EndFailed("Io", Len(bytes))
    ELSE IF SubSeq(bytes, 1, n) # Sevens(n) THEN EndFailed("Fatal", n)
    ELSE [ok |-> TRUE, read |-> n, next |-> next]

\* ensure_end_section is entered with an edition and a reader.
InitEnd ==
    /\ phase = "End"
    /\ NoHeader
    /\ edition \in {3, 4}
    /\ source \in SampleTrailers
    /\ end_stage = (IF edition = 3 THEN "Boundary" ELSE "Trailer")
    /\ end_result = "Running"
    /\ end_read = 0
    /\ section_descriptors = << >>
    /\ pos = 0
    /\ resolved = << >>
    /\ outcome = "Running"
    /\ NoDecoder
    /\ NoFmt

InEnd(stage) == phase = "End" /\ end_result = "Running" /\ end_stage = stage

\* A read has returned: the function goes on, or returns.
EndRead(r) ==
    /\ end_read' = end_read + r.read
    /\ IF r.ok
       THEN /\ end_stage' = r.next
            /\ end_result' = IF r.next = "Done" THEN "Ok" ELSE end_result
       ELSE /\ end_result' = r.err
            /\ UNCHANGED end_stage
    /\ UNCHANGED << phase, headerVars, edition, source, resolverVars, decoderVars >>

\* edition == 3: the one byte read first.
EndBoundary == InEnd("Boundary") /\ EndRead(read_boundary(Rest))

\* The three bytes read after a '7'.
EndLegacy == InEnd("Legacy") /\ EndRead(read_sevens(3, Rest, "Trailer"))

\* The four bytes of the trailer, and Ok(()).
EndTrailer == InEnd("Trailer") /\ EndRead(read_sevens(4, Rest, "Done"))

NextEnd ==
    \/ EndBoundary
    \/ EndLegacy
    \/ EndTrailer

SpecEnd == InitEnd /\ [][NextEnd]_vars

\* ------------------------------------------------------------------------
\* The library's three entry points: HeaderSections::read, read_event,
\* ensure_end_section
\* ------------------------------------------------------------------------

InitFile == InitHeader \/ Init \/ InitEnd

NextFile ==
    \/ phase = "Header" /\ NextHeader
    \/ phase = "Data" /\ Next
    \/ phase = "End" /\ NextEnd

SpecFile == InitFile /\ [][NextFile]_vars

\* ------------------------------------------------------------------------
\* f64 arithmetic, on naturals held as decimal digit sequences
\* ------------------------------------------------------------------------

\* A natural as its decimal digits, most significant first; zero is << >>.
RECURSIVE Digits(_)
Digits(n) == IF n = 0 THEN << >> ELSE Append(Digits(n \div 10), n % 10)

\* |v| of an i32.
Magnitude(v) ==
    IF v = MinI32 THEN << 2, 1, 4, 7, 4, 8, 3, 6, 4, 8 >>
    ELSE Digits(IF v < 0 THEN -v ELSE v)

RECURSIVE Strip(_)
Strip(d) == IF d # << >> /\ d[1] = 0 THEN Strip(Tail(d)) ELSE d

Zeros(n) == [i \in 1..n |-> 0]

\* a + b, from the last digits on; i digits are done, c is the carry.
RECURSIVE AddFrom(_, _, _, _, _)
AddFrom(a, b, i, c, acc) ==
    IF i >= Len(a) /\ i >= Len(b)
    THEN IF c = 0 THEN acc ELSE << c >> \o acc
    ELSE LET x == IF i < Len(a) THEN a[Len(a) - i] ELSE 0
             y == IF i < Len(b) THEN b[Len(b) - i] ELSE 0
             t == x + y + c
         IN AddFrom(a, b, i + 1, t \div 10, << t % 10 >> \o acc)

Add(a, b) ==
    IF a = << >> THEN b
    ELSE IF b = << >> THEN a
    ELSE AddFrom(a, b, 0, 0, << >>)

\* a - b for a >= b.
RECURSIVE SubFrom(_, _, _, _, _)
SubFrom(a, b, i, c, acc) ==
    IF i >= Len(a) THEN Strip(acc)
    ELSE LET y == IF i < Len(b) THEN b[Len(b) - i] ELSE 0
             t == a[Len(a) - i] - y - c
         IN SubFrom(a, b, i + 1, IF t < 0 THEN 1 ELSE 0,
                    << (t + 10) % 10 >> \o acc)

Sub(a, b) == IF b = << >> THEN a ELSE SubFrom(a, b, 0, 0, << >>)

\* a < b
Less(a, b) ==
    IF Len(a) # Len(b) THEN Len(a) < Len(b)
    ELSE \E i \in 1..Len(a) :
            a[i] < b[i] /\ \A j \in 1..(i - 1) : a[j] = b[j]

\* a * k for 0 <= k <= 2^24.
RECURSIVE MulSmallFrom(_, _, _, _, _)
MulSmallFrom(a, k, i, c, acc) ==
    IF i >= Len(a) THEN Strip(Digits(c) \o acc)
    ELSE LET t == a[Len(a) - i] * k + c
         IN MulSmallFrom(a, k, i + 1, t \div 10, << t % 10 >> \o acc)

MulSmall(a, k) ==
    IF a = << >> \/ k = 0 THEN << >> ELSE MulSmallFrom(a, k, 0, 0, << >>)

\* a * b, digit by digit of b.
RECURSIVE MulFrom(_, _, _, _)
MulFrom(a, b, i, acc) ==
    IF i > Len(b) THEN acc
    ELSE LET sum == Add(IF acc = << >> THEN acc ELSE Append(acc, 0),
                        MulSmall(a, b[i]))
         IN MulFrom(a, b, i + 1, sum)

Mul(a, b) == IF a = << >> \/ b = << >> THEN << >> ELSE MulFrom(a, b, 1, << >>)

\* a / d and a % d for 0 < d <= 2^24.
RECURSIVE DivSmallFrom(_, _, _, _, _)
DivSmallFrom(a, d, i, c, acc) ==
    IF i > Len(a) THEN [q |-> Strip(acc), r |-> c]
    ELSE LET t == c * 10 + a[i]
         IN DivSmallFrom(a, d, i + 1, t % d, Append(acc, t \div d))

DivSmall(a, d) ==
    IF a = << >> THEN [q |-> a, r |-> 0] ELSE DivSmallFrom(a, d, 1, 0, << >>)

Odd(a) == a # << >> /\ a[Len(a)] % 2 = 1

\* q / 2^j with what is shifted out: its leading bit (guard) and whether it,
\* or what was shifted out before it, has more bits (sticky).
ShiftedOut(q, j, guard, sticky) ==
    LET h == DivSmall(q, Pow2(j))
    IN [q |-> h.q,
        guard |-> IF h.r >= Pow2(j - 1) THEN 1 ELSE 0,
        sticky |-> sticky \/ guard = 1 \/ h.r % Pow2(j - 1) # 0]

\* The rounding to nearest, ties to even, of n plus the part shifted out.
Nearest(n, guard, sticky) ==
    IF guard = 1 /\ (sticky \/ Odd(n)) THEN Add(n, << 1 >>) ELSE n

\* 2^53: a mantissa of an f64 is below it.  2^69 = 2^53 * 2^16.
TwoTo53 == << 9, 0, 0, 7, 1, 9, 9, 2, 5, 4, 7, 4, 0, 9, 9, 2 >>

TwoTo69 == << 5, 9, 0, 2, 9, 5, 8, 1, 0, 3, 5, 8, 7, 0, 5, 6, 5, 1, 7, 1, 2 >>

\* The f64 m * 2^e (positive, or zero with m = << >>).
F64(m, e) == [m |-> m, e |-> e]

\* Rounding to the nearest f64, ties to even, of q * 2^e plus a part below
\* 2^e: `guard` is that part's leading bit, `sticky` tells that it has more.
RECURSIVE RoundF64(_, _, _, _)
RoundF64(q, guard, sticky, e) ==
    IF Less(q, TwoTo53) THEN F64(Nearest(q, guard, sticky), e)
    ELSE LET j == IF Less(q, TwoTo69) THEN 1 ELSE 16
             h == ShiftedOut(q, j, guard, sticky)
         IN IF h.sticky THEN RoundF64(h.q, h.guard, TRUE, e + j)
            ELSE RoundF64(h.q, h.guard, FALSE, e + j)

\* x * y
fmul(x, y) == RoundF64(Mul(x.m, y.m), 0, FALSE, x.e + y.e)

\* The bits of 1 / d, four at a time: 1 / d = (q + r / d) * 2^e, until q has
\* more than 53 bits.
RECURSIVE DivBits(_, _, _, _)
DivBits(r, d, q, e) ==
    IF ~Less(q, TwoTo53) THEN RoundF64(q, 0, r # << >>, e)
    ELSE LET r16 == MulSmall(r, 16)
             c == CHOOSE n \in 0..15 :
                     /\ ~Less(r16, MulSmall(d, n))
                     /\ Less(r16, MulSmall(d, n + 1))
         IN DivBits(Sub(r16, MulSmall(d, c)), d,
                    Add(MulSmall(q, 16), Digits(c)), e - 4)

\* 1.0 / y
fdiv_one(y) ==
    LET q == DivBits(<< 1 >>, y.m, << >>, 0)
    IN F64(q.m, q.e - y.e)

\* The loop of powi: `if pow & 1 != 0 { mul *= a }; pow >>= 1; a *= a`, until
\* pow is 0.
RECURSIVE powi_loop(_, _, _)
powi_loop(a, pow, mul) ==
    IF pow = 0 THEN mul
    ELSE IF a.m = << >> THEN a
    ELSE IF mul.m = << >> THEN mul
    ELSE powi_loop(IF pow > 1 THEN fmul(a, a) ELSE a, pow \div 2,
                   IF pow % 2 = 1 THEN fmul(mul, a) ELSE mul)

\* powi: a^b by squaring and multiplying, the reciprocal for b < 0.
powi(a, b) ==
    IF b < 0 THEN fdiv_one(powi_loop(a, -b, F64(<< 1 >>, 0)))
    ELSE powi_loop(a, b, F64(<< 1 >>, 0))

\* n * 2^k, up to 24 bits at a time.
RECURSIVE ShiftLeft(_, _)
ShiftLeft(n, k) ==
    IF k = 0 \/ n = << >> THEN n
    ELSE LET j == IF k >= 24 THEN 24 ELSE k
         IN ShiftLeft(MulSmall(n, Pow2(j)), k - j)

\* n / 2^k rounded to the nearest integer, ties to even, up to 24 bits at a
\* time.
RECURSIVE ShiftRightRound(_, _, _, _)
ShiftRightRound(n, k, guard, sticky) ==
    IF k = 0 THEN Nearest(n, guard, sticky)
    ELSE LET j == IF k >= 24 THEN 24 ELSE k
             h == ShiftedOut(n, j, guard, sticky)
         IN IF h.sticky THEN ShiftRightRound(h.q, k - j, h.guard, TRUE)
            ELSE ShiftRightRound(h.q, k - j, h.guard, FALSE)

\* A decimal numeral: sign, integer digits (at least one), fraction digits.
Numeral(neg, n, frac_digits) ==
    LET padded == IF Len(n) <= frac_digits
                  THEN Zeros(frac_digits + 1 - Len(n)) \o n ELSE n
    IN [kind |-> "Numeral", neg |-> neg,
        int |-> SubSeq(padded, 1, Len(padded) - frac_digits),
        frac |-> SubSeq(padded, Len(padded) - frac_digits + 1, Len(padded))]

\* format!("{:.prec$}", x) of the f64 x, negative if neg: the exact value of
\* x rounded to prec fractional digits.
fmt_f64(neg, x, prec) ==
    LET n == IF x.m = << >> THEN << >> ELSE x.m \o Zeros(prec)
    IN Numeral(neg,
               IF x.e >= 0 THEN ShiftLeft(n, x.e)
               ELSE ShiftRightRound(n, -x.e, 0, FALSE),
               prec)

\* ------------------------------------------------------------------------
\* impl Debug for Value
\* ------------------------------------------------------------------------

\* The values formatted: mantissas and scales over the range of i32 and of
\* scales up to 23 decimal places either way, with the least i8.
SampleMantissas ==
    {0, 1, -1, 5, -5, 42, 1234, -1234, 1234567, 999999999, MaxI32, MinI32}

SampleScales == {-128, -23, -22, -7, -2, -1, 0, 1, 2, 10, 22, 23}

SampleValues ==
    { Decimal(v, s) : v \in SampleMantissas, s \in SampleScales }
      \cup { Integer(v) : v \in SampleMantissas }
      \cup { Missing }
      \cup { String(t) : t \in {"", "Hello"} }

\* The text written with no numeral: a word, or a string between quotes.
Word(w) == [kind |-> "Word", w |-> w]

Quoted(t) == [kind |-> "Quoted", open |-> "\"", s |-> t, close |-> "\""]

\* v as f64 * 10f64.powi(s as i32)
product(v, s) == fmul(F64(Magnitude(v), 0), powi(F64(<< 1, 0 >>, 0), s))

\* Debug::fmt, were every Decimal written with no fraction digits ("{:.0}").
fmt_no_precision(val, checks) ==
    CASE val.tag = "Decimal" ->
            IF val.s = -128
            THEN IF checks THEN Panic ELSE [kind |-> "Unbounded"]
            ELSE fmt_f64(val.m < 0, product(val.m, val.s), 0)
      [] val.tag = "Integer" -> Numeral(val.v < 0, Magnitude(val.v), 0)
      [] val.tag = "String" -> Quoted(val.s)
      [] val.tag = "Missing" -> Word("Missing")

\* Debug::fmt.  `-s` of the least i8 overflows: a panic where overflow is
\* checked, and else -128 again, a precision of 2^64 - 128 digits, with which
\* no text is ever complete.
fmt(val, checks) ==
    CASE val.tag = "Decimal" ->
            IF val.s = -128
            THEN IF checks THEN Panic ELSE [kind |-> "Unbounded"]
            ELSE fmt_f64(val.m < 0, product(val.m, val.s),
                         IF val.s < 0 THEN -val.s ELSE 0)
      [] val.tag = "Integer" -> Numeral(val.v < 0, Magnitude(val.v), 0)
      [] val.tag = "String" -> Quoted(val.s)
      [] val.tag = "Missing" -> Word("Missing")

InitFmt ==
    /\ phase = "Fmt"
    /\ NoHeader
    /\ NoEnd
    /\ section_descriptors = << >>
    /\ pos = 0
    /\ resolved = << >>
    /\ outcome = "Running"
    /\ NoDecoder
    /\ fmt_value \in SampleValues
    /\ fmt_text = NoText

\* format!("{:?}", value)
Format ==
    /\ phase = "Fmt"
    /\ fmt_text = NoText
    /\ \E checks \in BOOLEAN : fmt_text' = fmt(fmt_value, checks)
    /\ UNCHANGED << fileVars, resolverVars, data_spec, overflow_checks, readerVars,
                    observerVars, fmt_value >>

NextFmt == Format

SpecFmt == InitFmt /\ [][NextFmt]_vars

\* ------------------------------------------------------------------------
\* Properties
\* ------------------------------------------------------------------------

NumberOfSubsets == data_spec.number_of_subsets

Roots == data_spec.root_descriptors

\* The Table B entry of a Data event.
EntryOf(ev) == CHOOSE b \in TABLE_B : b.xy = ev.xy

\* The last call decoded a non-compressed word of the stream into a Data
\* event or into a failure.
DecodedWord == raw.what = "word"

\* C1: with no error, the events returned up to the first Eof are properly
\* nested: every Start is closed by the End of its own kind in LIFO order, no
\* End comes without the Start of its kind innermost, every event stands where
\* the grammar allows it, and at Eof nothing is open and test_full_read's four
\* counters are zero.
C1_EventNesting ==
    /\ nest_ok
    /\ last.kind = "Eof" =>
          /\ open = << >>
          /\ subset_counter = 0
          /\ sequence_counter = 0
          /\ replication_counter = 0
          /\ replication_item_counter = 0

\* C1 witness: Eof after two subsets of a program whose root holds a sequence
\* with a replication in it.
C1_Witness ==
    /\ last.kind = "Eof"
    /\ subset_starts = 2
    /\ closed.k = "Subset"
    /\ \E i \in 1..Len(Roots) :
          /\ Roots[i].t = "Sequence"
          /\ \E j \in 1..Len(Roots[i].descriptors) :
                Roots[i].descriptors[j].t = "Replication"

\* C2: not compressed, N subsets declared, no error: the events are N groups
\* SubsetStart(i) walk(roots) SubsetEnd with i = 0..N-1 in order, then Eof.
\* SubsetStart(i) is the (i+1)-th SubsetStart and comes with nothing open;
\* SubsetEnd closes a subset in which each root child was walked; Eof comes
\* after exactly N SubsetStart; for N = 0 the first event is Eof.
C2_SubsetGroups ==
    ~data_spec.is_compressed =>
        /\ subset_starts <= NumberOfSubsets
        /\ compressed_starts = 0
        /\ last.kind = "SubsetStart" =>
              /\ last.idx = subset_starts - 1
              /\ Len(open) = 1
              /\ nest_ok
        /\ last.kind = "SubsetEnd" =>
              /\ closed.k = "Subset"
              /\ closed.n = Len(Roots)
              /\ open = << >>
        /\ last.kind = "Eof" => subset_starts = NumberOfSubsets /\ open = << >>
        /\ first # "None" =>
              first = (IF NumberOfSubsets = 0 THEN "Eof" ELSE "SubsetStart")

\* C2 witness: Eof after the second of two subsets with a non-empty root list.
C2_Witness ==
    /\ ~data_spec.is_compressed
    /\ NumberOfSubsets = 2
    /\ last.kind = "Eof"
    /\ subset_starts = 2
    /\ closed.k = "Subset"
    /\ closed.n > 0

\* C3: compressed, any declared subset count, no error: the first event is
\* CompressedStart, it is returned once, the root list is walked once, the walk
\* is ended by Eof, and SubsetStart and SubsetEnd are never returned.
C3_CompressedOnce ==
    data_spec.is_compressed =>
        /\ first \in {"None", "CompressedStart"}
        /\ compressed_starts <= 1
        /\ subset_starts = 0
        /\ last.kind \notin {"SubsetStart", "SubsetEnd"}
        /\ last.kind = "Eof" =>
              /\ compressed_starts = 1
              /\ closed.k = "Compressed"
              /\ closed.n = Len(Roots)
              /\ open = << >>

\* C3 witness: Eof of a compressed message that declares no subset or several,
\* after a walk of a non-empty root list.
C3_Witness ==
    /\ data_spec.is_compressed
    /\ NumberOfSubsets # 1
    /\ last.kind = "Eof"
    /\ closed.k = "Compressed"
    /\ closed.n > 0

C4_Counts ==
    /\ \A i \in 1..Len(open) :
          open[i].k = "Replication" => open[i].items <= open[i].count
    /\ last.kind = "ReplicationEnd" =>
          closed.k = "Replication" /\ closed.items = closed.count
    /\ last.kind = "ReplicationItemStart" =>
          /\ Len(open) >= 2
          /\ open[Len(open)].k = "Item"
          /\ open[Len(open) - 1].k = "Replication"
    /\ last.kind = "ReplicationItemEnd" =>
          /\ closed.k = "Item"
          /\ open # << >> /\ open[Len(open)].k = "Replication"
          /\ stack # << >> /\ closed.n = Len(Top.descriptors)

\* C4: between ReplicationStart{count = k} and its ReplicationEnd exactly k
\* ReplicationItemStart are returned at that level (never more than k while it
\* is open, k when it closes), each item is closed by its ReplicationItemEnd
\* after one walk of all the replication's children (also of an empty child
\* list), and for k = 0 ReplicationStart is followed at once by ReplicationEnd.
C4_ReplicationArity ==
    /\ []C4_Counts
    /\ [][(last.kind = "ReplicationStart" /\ last.count = 0)
            => last'.kind = "ReplicationEnd"]_vars

\* C4 witness: the end of a replication of count 2 after its two items.
C4_Witness ==
    /\ last.kind = "ReplicationEnd"
    /\ closed.count = 2
    /\ closed.items = 2

C6_MissingIffAllOnes ==
    (last.kind = "Data" /\ DecodedWord) =>
        LET width == EntryOf(last).bits + width_offset
        IN /\ width \in 0..32
           /\ (last.value = Missing) <=> (raw.v = AllOnes(width))
           /\ last.value.tag \in {"Missing", "Integer", "Decimal"}

\* C6 witness: a 32-bit word of all ones decoded as Missing.
C6_Witness ==
    /\ last.kind = "Data"
    /\ DecodedWord
    /\ EntryOf(last).bits + width_offset = 32
    /\ raw.v = -1
    /\ last.value = Missing

\* C7: a non-compressed Data child of effective width <= 32 whose bits v are
\* not all ones yields Integer(v + R) when the effective scale S' is 0 and
\* Decimal(v + R, -S') otherwise, v + R narrowed to i32, whatever v and R are:
\* the call never fails on an overflow.
C7_ValueFormula ==
    (DecodedWord /\ raw.v # AllOnes(raw.width)) =>
        /\ last.kind = "Data"
        /\ LET b == EntryOf(last)
               s == b.scale + scale_offset
               sum == WrapAddI32(raw.v, b.reference_value)
           IN last.value = (IF s = 0 THEN Integer(sum) ELSE Decimal(sum, -s))

\* C8: no read_event call but one that handles operator (1,*) changes
\* width_offset, and none but one that handles (2,*) changes scale_offset (not
\* SubsetStart, SubsetEnd, SequenceStart, SequenceEnd, nor any other event);
\* every Data child decoded as a word is read with the width and the scale (an
\* i8) the offsets in force give it.
C8_OffsetsPersist ==
    /\ [](last.kind = "Data" /\ DecodedWord =>
            /\ raw.width = EntryOf(last).bits + width_offset
            /\ raw.scale = AsI8(EntryOf(last).scale + scale_offset))
    /\ [][/\ width_offset' # width_offset =>
               last'.kind = "OperatorHandled" /\ last'.x = 1
          /\ scale_offset' # scale_offset =>
               last'.kind = "OperatorHandled" /\ last'.x = 2]_vars

\* C8 witness: in the second subset an 8-bit element is read as 32 bits, by the
\* width offset an operator set at the end of the first subset.
C8_Witness ==
    /\ subset_starts = 2
    /\ last.kind = "Data"
    /\ DecodedWord
    /\ width_offset = 24
    /\ EntryOf(last).bits = 8
    /\ raw.width = 32
    /\ consumed = 32

\* The read_event call about to be made handles an Operator child.
AtOperator == Callable /\ stack # << >> /\ ~AtListEnd /\ CurrentDesc.t = "Operator"

C10_UnsupportedOperator ==
    [][(AtOperator /\ CurrentDesc.xy.x \notin {1, 2, 6}) =>
          /\ last' = Err("NotSupported")
          /\ width_offset' = width_offset
          /\ scale_offset' = scale_offset
          /\ temporary_operator' = temporary_operator
          /\ open' = open]_vars

\* C10 witness: operator (4,1) refused while a width offset of 1 is in force.
C10_Witness ==
    /\ last = Err("NotSupported")
    /\ width_offset = 1
    /\ stack # << >>
    /\ Top.descriptors[Top.next].t = "Operator"
    /\ Top.descriptors[Top.next].xy.x = 4

\* The last call read a compressed element of at most 32 bits: its local
\* reference, nbinc and the increments.
DecodedCompressed == raw.what = "compressed"

\* The value the rule of non-compressed data gives the word v of B' bits:
\* Missing iff v = 2^B' - 1, else Integer(v + R) or Decimal(v + R, -S').
RuleValue(v, bit_width, scale, ref_value) ==
    IF v = AllOnes(bit_width) THEN Missing
    ELSE IF scale = 0 THEN Integer(WrapAddI32(v, ref_value))
    ELSE Decimal(WrapAddI32(v, ref_value), -scale)

\* C11: a compressed Data child of effective width B' <= 32 with N subsets
\* declared: the call reads B' bits of local reference and 6 bits of nbinc;
\* with nbinc = 0 it returns CompressedData with N copies of the value of the
\* local reference; otherwise it reads N increments of nbinc bits and value i
\* is the value of localRef + inc_i, by the rule of non-compressed data.
C11_CompressedRule ==
    DecodedCompressed =>
        LET n == NumberOfSubsets
            v(i) == IF raw.nbinc = 0 THEN raw.local
                    ELSE WrapAddI32(raw.local, raw.incs[i])
        IN /\ last.kind = "CompressedData"
           /\ last.values =
                 [i \in 1..n |-> RuleValue(v(i), raw.width, raw.scale, raw.ref)]
           /\ consumed = raw.width + 6 + (IF raw.nbinc = 0 THEN 0 ELSE n * raw.nbinc)

\* C12: every CompressedData event carries one value per declared subset,
\* with nbinc = 0 and with nbinc # 0, at every depth of nesting.
C12_ValuesPerSubset ==
    last.kind = "CompressedData" =>
        /\ DecodedCompressed
        /\ Len(last.values) = NumberOfSubsets

\* C12 witness: inside a replication item of a message of two subsets, a
\* CompressedData read with increments carries two values.
C12_Witness ==
    /\ last.kind = "CompressedData"
    /\ NumberOfSubsets = 2
    /\ raw.nbinc # 0
    /\ open # << >> /\ open[Len(open)].k = "Item"
    /\ Len(last.values) = 2

\* The last call read the bytes of a character-string element.
DecodedBytes == raw.what = "bytes"

\* C13: in compressed mode a Data child on the character-string path (width a
\* multiple of 8 above 32) makes read_event fail with NotSupported whatever the
\* bytes read are: no Data event is returned in compressed mode, and no other
\* error kind for such a child.
C13_CompressedString ==
    data_spec.is_compressed =>
        /\ last.kind # "Data"
        /\ DecodedBytes => last = Err("NotSupported")

\* The Table B entry of the Data child the last call handled (the cursor of
\* the top entry has moved past it).
HandledEntry == Top.descriptors[Top.next].b

\* C14: a non-compressed Data child of effective width B' above 32 and a
\* multiple of 8: the call consumes exactly the B' bits of B'/8 bytes from the
\* current bit position and returns Data{Missing} when every byte is 0xFF,
\* Data{String} of the bytes when they are valid UTF-8, and an Invalid error
\* when they are not.
C14_StringPath ==
    (~data_spec.is_compressed /\ DecodedBytes) =>
        LET width == HandledEntry.bits + width_offset
            vec == raw.vec
        IN (width > 32 /\ width % 8 = 0) =>
              /\ consumed = width
              /\ vec.len * 8 = width
              /\ last = (IF AllFF(vec) THEN DataEvent(Top.next - 1, HandledEntry, Missing)
                         ELSE IF Utf8Ok(vec)
                         THEN DataEvent(Top.next - 1, HandledEntry, String(vec))
                         ELSE Err("Invalid"))

\* C14 witness: five bytes of text read as a String from a bit position that
\* is not on a byte boundary.
C14_Witness ==
    /\ ~data_spec.is_compressed
    /\ DecodedBytes
    /\ HandledEntry.bits + width_offset = 40
    /\ reader = 2
    /\ consumed = 40
    /\ last.kind = "Data"
    /\ last.value = String([len |-> 5, head |-> 65, fill |-> 65])

\* The read_event call about to be made handles a Data child.
AtData == Callable /\ stack # << >> /\ ~AtListEnd /\ CurrentDesc.t = "Data"

\* The effective width and scale of the Data child about to be handled, as
\* integers: B' = bits + width_offset, S' = scale + scale_offset.
EffectiveWidth == CurrentDesc.b.bits + width_offset

EffectiveScale == CurrentDesc.b.scale + scale_offset

\* The call fails with Invalid and reads no bits.
InvalidUnread ==
    /\ last' = Err("Invalid")
    /\ consumed' = 0
    /\ raw' = NoRead
    /\ reader' = reader

\* C15: a Data child whose effective width B' = bits + width_offset is not in
\* 0..32 and not a non-zero multiple of 8 above 32, a negative B' included,
\* makes read_event fail with Invalid without reading any bits.
C15_InvalidWidth ==
    [][(AtData /\ (EffectiveWidth < 0
                   \/ (EffectiveWidth > 32 /\ EffectiveWidth % 8 # 0)))
          => InvalidUnread]_vars

\* The values the last call returned: the one of a Data event, the N of a
\* CompressedData event.
ReturnedValues ==
    IF last.kind = "Data" THEN {last.value}
    ELSE IF last.kind = "CompressedData"
    THEN {last.values[i] : i \in 1..Len(last.values)}
    ELSE {}

\* C16: for every Data child the bits read for the value are exactly
\* bits + width_offset and the scale applied is exactly scale + scale_offset,
\* as integers without wraparound: a Decimal returned has -(scale +
\* scale_offset) as its second component, and a value that is not Missing is an
\* Integer exactly when scale + scale_offset = 0.
C16_ExactWidthAndScale ==
    (DecodedWord \/ DecodedCompressed \/ DecodedBytes) =>
        LET width == HandledEntry.bits + width_offset
            scale == HandledEntry.scale + scale_offset
        IN /\ width >= 0
           /\ DecodedWord => consumed = width
           /\ DecodedCompressed => raw.width = width
           /\ DecodedBytes => raw.vec.len * 8 = width
           /\ \A v \in ReturnedValues :
                 /\ v.tag = "Decimal" => v.s = -scale
                 /\ v.tag \in {"Integer", "Decimal"} =>
                       (v.tag = "Integer" <=> scale = 0)

\* The read_event call about to be made handles a Replication child.
AtReplication ==
    Callable /\ stack # << >> /\ ~AtListEnd /\ CurrentDesc.t = "Replication"

\* C17: the count of a delayed replication (y = 0) is read by the read_event
\* call that returns ReplicationStart, which consumes exactly delayed_bits bits
\* and returns the unsigned value read as the count; for y # 0 the count is y
\* and no bits are consumed.  No bits are consumed before the first call, nor
\* by the calls that return the items and the end of the replication.
C17_DelayedCount ==
    /\ [][AtReplication =>
            LET d == CurrentDesc
            IN IF d.y = 0
               THEN \/ last' = Err("Io")
                    \/ /\ last'.kind = "ReplicationStart"
                       /\ last'.idx = Top.next
                       /\ consumed' = d.delayed_bits
                       /\ reader' = (reader + d.delayed_bits) % 8
                       /\ raw'.what = "count"
                       /\ last'.count = raw'.v
                       /\ stack'[Len(stack')].remaining = raw'.v
               ELSE /\ last' = [kind |-> "ReplicationStart", idx |-> Top.next,
                                count |-> d.y]
                    /\ consumed' = 0
                    /\ raw' = NoRead
                    /\ reader' = reader
                    /\ stack'[Len(stack')].remaining = d.y]_vars
    /\ [](last.kind \in {"None", "ReplicationItemStart", "ReplicationItemEnd",
                         "ReplicationEnd"} => consumed = 0 /\ raw = NoRead)

\* C17 witness: the ReplicationStart of a replication whose count, 2, was
\* read as 8 bits by the call that returned it.
C17_Witness ==
    /\ last.kind = "ReplicationStart"
    /\ last.count = 2
    /\ consumed = 8
    /\ raw = [what |-> "count", v |-> 2]
    /\ Top.ty = "Replication" /\ Top.remaining = 2

\* The iteration about to run is on an f=1 descriptor.
AtReplicationDescriptor == InLoop /\ section_descriptors[pos + 1].f = 1

\* The width of the delayed count that a marker stands for: 1 bit for
\* 0-31-000, 8 for 0-31-001, 16 for 0-31-002, 8 for 0-31-003; 0: no marker.
MarkerBits(desc) ==
    CASE desc = Descriptor(0, 31, 0) -> 1
      [] desc = Descriptor(0, 31, 1) -> 8
      [] desc = Descriptor(0, 31, 2) -> 16
      [] desc = Descriptor(0, 31, 3) -> 8
      [] OTHER -> 0

\* The iteration pushed a Replication node of that y and delayed_bits and
\* went on at position next.
PushedReplication(y, delayed_bits, next) ==
    /\ pos' = next
    /\ Len(resolved') = Len(resolved) + 1
    /\ SubSeq(resolved', 1, Len(resolved)) = resolved
    /\ LET node == resolved'[Len(resolved')]
       IN /\ node.t = "Replication"
          /\ node.y = y
          /\ node.delayed_bits = delayed_bits

\* C18: at an f=1 descriptor with y = 0 resolve_descriptors takes the next
\* descriptor as the marker of the delayed count and records delayed_bits 1,
\* 8, 16 or 8 for 0-31-000, 0-31-001, 0-31-002, 0-31-003; when the next
\* descriptor is anything else, or when there is none because the f=1
\* descriptor is the last of the list, it returns a Fatal error.  With y # 0
\* no descriptor is taken as a marker.
C18_DelayedMarker ==
    [][AtReplicationDescriptor =>
          LET desc == section_descriptors[pos + 1]
              following == Len(section_descriptors) - (pos + 1)
          IN IF desc.y # 0
             THEN outcome' = "Running" => PushedReplication(desc.y, 0, pos + 1 + desc.x)
             ELSE IF following = 0 \/ MarkerBits(section_descriptors[pos + 2]) = 0
             THEN outcome' = "Fatal"
             ELSE outcome' = "Running" =>
                     PushedReplication(0, MarkerBits(section_descriptors[pos + 2]),
                                       pos + 2 + desc.x)]_vars

\* A replication descriptor at position at (0-based) of the list, whose marker
\* (when y = 0) lies before position limit: where its span starts, and where
\* it would end.
HasMarker(at, limit) ==
    section_descriptors[at + 1].y = 0 =>
        (at + 1 < limit /\ MarkerBits(section_descriptors[at + 2]) # 0)

SpanStart(at) == IF section_descriptors[at + 1].y = 0 THEN at + 2 ELSE at + 1

SpanEnd(at) == SpanStart(at) + section_descriptors[at + 1].x

RECURSIVE Unresolved(_)

\* The descriptors a list of resolved nodes stands for, in order: an element,
\* an operator or a sequence stands for its own descriptor; a Replication node
\* for an f=1 descriptor whose x is the number of descriptors its children
\* stand for, then the marker of its delayed count (known by its width) when
\* y = 0, then those descriptors.
Unresolved(nodes) ==
    IF nodes = << >> THEN << >>
    ELSE LET node == Head(nodes)
             own == CASE node.t = "Data" -> << Descriptor(0, node.b.xy.x, node.b.xy.y) >>
                      [] node.t = "Operator" -> << Descriptor(2, node.xy.x, node.xy.y) >>
                      [] node.t = "Sequence" -> << Descriptor(3, node.d.x, node.d.y) >>
                      [] node.t = "Replication" ->
                            LET span == Unresolved(node.descriptors)
                            IN << Descriptor(1, Len(span), node.y) >>
                               \o (IF node.y = 0
                                   THEN << [marker |-> node.delayed_bits] >>
                                   ELSE << >>)
                               \o span
         IN own \o Unresolved(Tail(nodes))

\* The descriptor of the input that a descriptor of Unresolved stands for.
StandsFor(u, desc) ==
    IF "marker" \in DOMAIN u THEN MarkerBits(desc) = u.marker /\ u.marker # 0
    ELSE u = desc

\* C20: the nodes resolve_descriptors has pushed stand for the descriptors it
\* has passed, one for one and in order: every f=1 descriptor is one
\* Replication node whose children are the resolution of the x descriptors
\* after it (after the marker when y = 0), the marker is no node, no node is a
\* raw f=1 descriptor, and every other descriptor is a node at its place.
C20_ResolvedStructure ==
    outcome \in {"Running", "Ok"} =>
        LET u == Unresolved(resolved)
        IN /\ Len(u) = pos
           /\ pos <= Len(section_descriptors)
           /\ outcome = "Ok" => pos = Len(section_descriptors)
           /\ \A i \in 1..Len(u) : StandsFor(u[i], section_descriptors[i])
           /\ \A i \in 1..Len(resolved) :
                 /\ resolved[i].t \in {"Data", "Operator", "Sequence", "Replication"}
                 /\ resolved[i].t = "Replication" =>
                       LET span == Unresolved(resolved[i].descriptors)
                           r == resolve_descriptors(
                                   [j \in 1..Len(span) |->
                                      section_descriptors[
                                         Len(Unresolved(SubSeq(resolved, 1, i))) - Len(span) + j]])
                       IN r.ok /\ r.val = resolved[i].descriptors

\* C20 witness: a delayed replication over one element, resolved into one
\* Replication node with the element as its only child.
C20_Witness ==
    /\ outcome = "Ok"
    /\ section_descriptors =
          << Descriptor(1, 1, 0), Descriptor(0, 31, 1), Descriptor(0, 1, 1) >>
    /\ Len(resolved) = 1
    /\ resolved[1].t = "Replication"
    /\ resolved[1].delayed_bits = 8
    /\ Len(resolved[1].descriptors) = 1
    /\ resolved[1].descriptors[1].t = "Data"
    /\ resolved[1].descriptors[1].b.xy = [x |-> 1, y |-> 1]

\* ------------------------------------------------------------------------
\* The errors of HeaderSections::read
\* ------------------------------------------------------------------------

\* The stream began with four bytes that are not "BUFR".
BadMagic ==
    /\ header_wire.section = "Indicator"
    /\ header_wire.avail >= 4
    /\ header_wire.magic # BUFR

\* Section 0 was read and its edition byte is neither 3 nor 4, and
\* HeaderSections::read has returned.
BadEdition ==
    /\ header_wire.section = "Indicator"
    /\ indicator_section.read
    /\ indicator_section.edition_number \notin {3, 4}
    /\ header_result # "Running"

\* The minimum length of the section last read.
SectionMinimum ==
    CASE header_wire.section = "Identification" ->
            IF header_wire.edition_number = 3 THEN 17 ELSE 22
      [] header_wire.section = "Optional" -> 4
      [] header_wire.section = "DataDescription" -> 7
      [] OTHER -> 0

\* The bytes of the section last read that are read whatever the section
\* holds: magic, length and edition of section 0; the length of section 1;
\* the length and the reserved byte of sections 2 and 3.
SectionPrefix ==
    CASE header_wire.section = "Indicator" -> 8
      [] header_wire.section = "Identification" -> 3
      [] header_wire.section \in {"Optional", "DataDescription"} -> 4
      [] OTHER -> 0

\* The section last read declares a length below its minimum (and the stream
\* held its length field and the byte read with it).
ShortLength ==
    /\ header_wire.section \in {"Identification", "Optional", "DataDescription"}
    /\ header_wire.avail >= SectionPrefix
    /\ header_wire.length < SectionMinimum

\* The stream ended before the section last read was complete.
SourceEnded ==
    /\ header_wire.section # "None"
    /\ header_wire.avail <
          (IF header_wire.length > SectionPrefix /\ header_wire.section # "Indicator"
           THEN header_wire.length ELSE SectionPrefix)

C22_Original == SourceEnded => header_result = "Fatal"

\* C22: HeaderSections::read returns an Io error exactly when the stream ends
\* before the bytes a section read asks for, no check having failed on the
\* bytes read before them.
C22_TruncatedIsIo ==
    header_result = "Io" <=> (SourceEnded /\ ~BadMagic /\ ~ShortLength)

C22_Witness ==
    /\ header_result = "Io"
    /\ header_wire.section = "DataDescription"
    /\ header_wire.length = 12
    /\ header_wire.avail = 11

\* ------------------------------------------------------------------------
\* The end section
\* ------------------------------------------------------------------------

\* ensure_end_section has returned.
EndReturned == phase = "End" /\ end_result # "Running"

\* The first n bytes of the stream ensure_end_section was given.
Leading(n) == SubSeq(source, 1, n)

\* C24: with edition 4, ensure_end_section reads exactly the next four bytes:
\* it succeeds if and only if they are "7777", and any other four bytes give
\* a Fatal error.
C24_Edition4Trailer ==
    (phase = "End" /\ edition = 4 /\ Len(source) >= 4) =>
        /\ end_read = (IF end_result = "Running" THEN 0 ELSE 4)
        /\ EndReturned =>
              /\ end_result = "Ok" <=> Leading(4) = Sevens(4)
              /\ Leading(4) # Sevens(4) => end_result = "Fatal"

\* C24 witness: "7778" is refused, four bytes read, with more bytes behind.
C24_Witness ==
    /\ edition = 4
    /\ Len(source) = 6
    /\ Leading(4) = << 55, 55, 55, 56 >>
    /\ end_result = "Fatal"
    /\ end_read = 4

C26_BoundaryOptional ==
    (EndReturned /\ edition = 3 /\ source = Sevens(4)) => end_result = "Ok"

\* ------------------------------------------------------------------------
\* The error kinds
\* ------------------------------------------------------------------------

\* ensure_end_section has compared bytes of the stream that are not the ones
\* it expects: the four bytes of edition 4, the first byte of edition 3, or
\* the four bytes after a first 0x00.
BadEndMarker ==
    /\ EndReturned
    /\ \/ edition = 4 /\ Len(source) >= 4 /\ Leading(4) # Sevens(4)
       \/ edition = 3 /\ Len(source) >= 1 /\ source[1] \notin {0, 55}
       \/ edition = 3 /\ Len(source) >= 5 /\ source[1] = 0
             /\ SubSeq(source, 2, 5) # Sevens(4)

\* The read_event call about to be made handles a Data child whose width is
\* above 32 and not a whole number of characters.
AtUnsupportedWidth == AtData /\ EffectiveWidth > 32 /\ EffectiveWidth % 8 # 0

\* The last read_event call read the bytes of a string field that are not
\* valid UTF-8 (and not all 0xFF).
MalformedUtf8 == DecodedBytes /\ ~AllFF(raw.vec) /\ ~Utf8Ok(raw.vec)

\* What the four kinds of uninterpretable wire data are reported as: the
\* header's and the end section's error kind, and that of the reader's two.
ReportedAs(section_kind, data_kind) ==
    /\ BadMagic' => header_result' = section_kind
    /\ BadEndMarker' => end_result' = section_kind
    /\ AtUnsupportedWidth => last' = Err(data_kind)
    /\ MalformedUtf8' => last' = Err(data_kind)

\* C23 as stated: a bad magic, a bad end marker, an unsupported bit width for
\* character data and malformed UTF-8 in a string field are all reported
\* with the Invalid kind.
C23_Original == [][ReportedAs("Invalid", "Invalid")]_vars

\* C23: an unsupported bit width for character data and malformed UTF-8 in a
\* string field are reported with the Invalid kind; a bad magic in section 0
\* and a bad end marker are reported with the Fatal kind.
C23_ErrorKinds == [][ReportedAs("Fatal", "Invalid")]_vars

\* C23 witness: a stream that begins with "7777" has been refused.
C23_Witness ==
    /\ BadMagic
    /\ header_wire.magic = Sevens(4)
    /\ header_result = "Fatal"

\* ------------------------------------------------------------------------
\* Determinism
\* ------------------------------------------------------------------------

\* The first DataReader as a value.
Self ==
    ReaderOf(current_subset_index, stack, temporary_operator, width_offset,
             scale_offset, reader, last)

Scaled(numeral, k) ==
    LET n == Strip(numeral.int \o numeral.frac)
    IN IF n = << >> THEN n ELSE n \o Zeros(k - Len(numeral.frac))

\* 2 * |text - v * 10^s| < 10^s, for a numeral of at most |s| fraction
\* digits: the three terms are compared as integers, times 10^|s|.
Within(numeral, v, s) ==
    LET k == IF s < 0 THEN -s ELSE s
        t == Scaled(numeral, k)
        m == Magnitude(v)
        e == IF m = << >> THEN m ELSE m \o Zeros(s + k)
        d == IF t = << >> \/ e = << >> \/ numeral.neg # (v < 0) THEN Add(t, e)
             ELSE IF Less(t, e) THEN Sub(e, t) ELSE Sub(t, e)
    IN Less(MulSmall(d, 2), << 1 >> \o Zeros(s + k))

\* A Decimal has been formatted; its scale is not the least i8.
DecimalWritten ==
    fmt_value.tag = "Decimal" /\ fmt_text # NoText /\ fmt_value.s # -128

ExactNumeral(v, s) ==
    LET m == Magnitude(v)
    IN IF s < 0 THEN Numeral(v < 0, m, -s)
       ELSE Numeral(v < 0, IF m = << >> THEN m ELSE m \o Zeros(s), 0)

\* C29: Decimal(v, s) is written as the decimal numeral of v * 10^s, with
\* exactly -s fraction digits when s < 0 and none when s >= 0; Integer(v) as
\* the numeral of v, Missing as the word Missing, String(t) as t between
\* double quotes.
C29_DebugRendering ==
    fmt_text # NoText =>
        fmt_text = CASE fmt_value.tag = "Decimal" ->
                            ExactNumeral(fmt_value.m, fmt_value.s)
                     [] fmt_value.tag = "Integer" -> ExactNumeral(fmt_value.v, 0)
                     [] fmt_value.tag = "String" ->
                            [kind |-> "Quoted", open |-> "\"", s |-> fmt_value.s,
                             close |-> "\""]
                     [] fmt_value.tag = "Missing" -> [kind |-> "Word", w |-> "Missing"]

\* The Data events of the element `name` among the events h[1..i] that lie
\* directly in the parent still open after them; depth counts the parents
\* closed on the way back.
RECURSIVE Occurrences(_, _, _, _)
Occurrences(h, i, depth, name) ==
    IF i = 0 THEN 0
    ELSE IF h[i].kind \in EndKinds THEN Occurrences(h, i - 1, depth + 1, name)
    ELSE IF h[i].kind \in StartKinds
    THEN IF depth = 0 THEN 0 ELSE Occurrences(h, i - 1, depth - 1, name)
    ELSE (IF depth = 0 /\ h[i].name = name THEN 1 ELSE 0)
            + Occurrences(h, i - 1, depth, name)

\* The materializer has just named the field of a data event.
FieldNamed ==
    columns.result = "Running" /\ last.kind \in {"Data", "CompressedData"}

\* C30: the field of the n-th occurrence of an element within one parent is
\* named "<element>" when the unit is Numeric and "<element> [<unit>]"
\* otherwise, followed by " (<n>)" exactly when n >= 2, the occurrences
\* being counted from 1 in each subset, sequence and replication item.
C30_FieldNames ==
    FieldNamed =>
        LET b == EntryOf(last)
            nth == Occurrences(columns.history, Len(columns.history), 0,
                               element_name(b.xy))
            named == IF b.unit = "Numeric" THEN << element_name(b.xy) >>
                     ELSE << element_name(b.xy), " [", b.unit, "]" >>
        IN columns.label =
              IF nth >= 2 THEN named \o << " (", ToString(nth), ")" >> ELSE named

\* The second of two equal elements of the second item of a replication.
C30_Witness ==
    /\ FieldNamed
    /\ columns.label = << "HEIGHT", " [", "m", "]", " (", "2", ")" >>
    /\ columns.calls[Len(columns.calls)].fn = "parse_sequence"
    /\ Cardinality({i \in DOMAIN columns.history :
                       columns.history[i].kind = "ReplicationItemStart"}) = 2

\* The events of a call that performs no read.
StillKinds ==
    {"SubsetStart", "SubsetEnd", "CompressedStart", "SequenceStart", "SequenceEnd",
     "ReplicationItemStart", "ReplicationItemEnd", "ReplicationEnd",
     "OperatorHandled", "Eof"}

\* The call that moved the reader was one of the three that read: it
\* returned Data or CompressedData, or ReplicationStart with a count read
\* from the stream, or it failed.
ReadingCall(res, rawv) ==
    \/ res.kind \in {"Data", "CompressedData", "Err", "Panic"}
    \/ res.kind = "ReplicationStart" /\ rawv.what = "count"

\* C34: a read_event call moves the bit position only when it returns Data
\* or CompressedData, ReplicationStart of a delayed replication, or fails
\* while reading; a call returning any other event leaves the position
\* where it was, SubsetStart included: nothing is skipped between subsets.
C34_PositionFrame ==
    [][/\ last'.kind \in StillKinds => (consumed' = 0 /\ reader' = reader)
       /\ (consumed' # 0 \/ reader' # reader) => ReadingCall(last', raw')]_vars

\* A second subset starts at a bit position that is not a byte boundary.
C34_Witness ==
    /\ last.kind = "SubsetStart"
    /\ last.idx = 1
    /\ reader # 0
    /\ consumed = 0

\* C36: once read_event has returned Eof, the next call returns Eof again,
\* reads no bits, and leaves the stack, the subset counter and the operator
\* offsets as they were, in compressed and in non-compressed mode.
C36_EofAbsorbing ==
    [][last.kind = "Eof" =>
          /\ last'.kind = "Eof"
          /\ consumed' = 0
          /\ reader' = reader
          /\ UNCHANGED << stack, current_subset_index, width_offset, scale_offset,
                          temporary_operator >>]_vars

\* parse_compressed_as_columns has returned Ok: parse_compressed_structure
\* took the first Eof, and the loop around it the second.
C36_Witness ==
    /\ data_spec.is_compressed
    /\ columns.result = "Ok"
    /\ Len(columns.history) >= 2
    /\ columns.history[Len(columns.history) - 1].kind = "Eof"
    /\ columns.history[Len(columns.history)].kind = "Eof"
    /\ last.kind = "Eof"

\* The nesting depth of Sequence and Replication nodes in a resolved list.
RECURSIVE NestingDepth(_)
NestingDepth(descriptors) ==
    LET below(d) == IF d.t \in {"Sequence", "Replication"}
                    THEN 1 + NestingDepth(d.descriptors) ELSE 0
        depths == {below(descriptors[i]) : i \in 1..Len(descriptors)}
    IN IF depths = {} THEN 0 ELSE CHOOSE m \in depths : \A k \in depths : k <= m

\* C38: the stack never holds more frames than 1 plus the nesting depth of
\* the resolved tree, whatever the subset count and the replication counts;
\* and it is empty exactly before the first event, after SubsetEnd and after
\* Eof.
C38_StackBounded ==
    /\ Len(stack) <= 1 + NestingDepth(data_spec.root_descriptors)
    /\ (stack = << >>) <=> (last.kind \in {"None", "SubsetEnd", "Eof"})

\* The second subset is walked at the deepest point of a tree that nests a
\* list in a list.
C38_Witness ==
    /\ current_subset_index = 2
    /\ Len(stack) >= 3
    /\ Len(stack) = 1 + NestingDepth(data_spec.root_descriptors)
    /\ Callable

\* The statement as first made: the bytes of a character string are read
\* only at a byte boundary, and only in a width that is a multiple of 8.
C39_Original ==
    raw.what = "bytes" => (reader = 0 /\ consumed % 8 = 0)

\* C39: the bytes of a character string are read only in a width (a u32)
\* above 32 that is a multiple of 8, as many bytes as the width holds, and
\* from the bit position the fields before it have left, aligned or not.
C39_WholeByteRead ==
    raw.what = "bytes" =>
        /\ ~U32InWordRange(consumed)
        /\ consumed % 8 = 0
        /\ raw.vec.len = U32Div8(consumed)

\* A string has been read and returned two bits into a byte.
C39_Witness ==
    /\ raw.what = "bytes"
    /\ reader = 2
    /\ last.kind = "Data"
    /\ last.value.tag = "String"

\* ------------------------------------------------------------------------
\* The child cursor over a list as long as a message can declare
\* ------------------------------------------------------------------------

\* A list of `len` operator descriptors 2-01-000, held by its length and the
\* descriptor that every place of it holds.
LongList(len) ==
    [len |-> len, d |-> [t |-> "Operator", xy |-> [x |-> 1, y |-> 0]]]

\* List lengths on both sides of what a u16 counts; the data description
\* section declares up to (2^24 - 8) / 2 descriptors.
ListLengths == {0, 1, MaxU16, MaxU16 + 1}

\* `top.next += 1` on a u16: the sum; at u16::MAX a panic where the build
\* checks overflow, and 0 where it does not.
next_plus_one(next, checks) ==
    IF next < MaxU16 THEN [ok |-> TRUE, next |-> next + 1]
    ELSE IF checks THEN [ok |-> FALSE]
    ELSE [ok |-> TRUE, next |-> 0]

\* What a read_event call on a list of operators leaves alone.
cursorFrame ==
    << fileVars, resolverVars, data_spec, overflow_checks, temporary_operator,
       scale_offset, reader, consumed, raw, first, subset_counter, sequence_counter,
       replication_counter, replication_item_counter, open, closed, nest_ok,
       subset_starts, compressed_starts, twin, columns, fmtVars >>

\* DataReader::new over a message of one subset whose descriptor list is one
\* of the long lists.
InitCursor ==
    /\ phase = "Cursor"
    /\ NoHeader
    /\ NoEnd
    /\ section_descriptors = << >>
    /\ pos = 0
    /\ resolved = << >>
    /\ outcome = "Ok"
    /\ \E len \in ListLengths :
          data_spec = [number_of_subsets |-> 1, is_compressed |-> FALSE,
                       root_descriptors |-> LongList(len)]
    /\ overflow_checks \in BOOLEAN
    /\ current_subset_index = 0
    /\ stack = << >>
    /\ temporary_operator = None
    /\ scale_offset = 0
    /\ width_offset = 0
    /\ reader = 0
    /\ last = Event("None")
    /\ consumed = 0
    /\ raw = NoRead
    /\ first = "None"
    /\ subset_counter = 0
    /\ sequence_counter = 0
    /\ replication_counter = 0
    /\ replication_item_counter = 0
    /\ open = << >>
    /\ closed = NoEntry
    /\ nest_ok = TRUE
    /\ subset_starts = 0
    /\ compressed_starts = 0
    /\ twin = NoTwin
    /\ columns = NoColumns
    /\ NoFmt

\* read_event with an empty stack at the end of the message.
CursorEof ==
    /\ Callable
    /\ stack = << >>
    /\ at_eof(current_subset_index, data_spec)
    /\ last' = Event("Eof")
    /\ UNCHANGED << cursorFrame, current_subset_index, stack, width_offset >>

\* read_event with an empty stack before the subset.
CursorStart ==
    /\ Callable
    /\ stack = << >>
    /\ ~at_eof(current_subset_index, data_spec)
    /\ stack' = << new_sequence(data_spec.root_descriptors) >>
    /\ current_subset_index' = current_subset_index + 1
    /\ last' = start_event(current_subset_index, data_spec)
    /\ UNCHANGED << cursorFrame, width_offset >>

\* process_next_descriptor at the end of the list.
CursorListEnd ==
    /\ Callable
    /\ stack # << >>
    /\ Top.next >= Top.descriptors.len
    /\ stack' = Pop(stack)
    /\ last' = list_end_event(Pop(stack), data_spec.is_compressed)
    /\ UNCHANGED << cursorFrame, current_subset_index, width_offset >>

\* process_next_descriptor on the child under the cursor: `idx = top.next`,
\* `top.next += 1`, and the operator handled.
CursorChild ==
    /\ Callable
    /\ stack # << >>
    /\ Top.next < Top.descriptors.len
    /\ LET idx == Top.next
           sum == next_plus_one(Top.next, overflow_checks)
           o == handle_operator_descriptor(idx, Top.descriptors.d.xy, width_offset,
                                           scale_offset, temporary_operator)
       IN IF sum.ok
          THEN /\ stack' = WithTop([Top EXCEPT !.next = sum.next])
               /\ width_offset' = o.st.width_offset
               /\ last' = o.res
          ELSE /\ last' = Panic
               /\ UNCHANGED << stack, width_offset >>
    /\ UNCHANGED << cursorFrame, current_subset_index >>

NextCursor ==
    \/ CursorEof
    \/ CursorStart
    \/ CursorListEnd
    \/ CursorChild

SpecCursor == InitCursor /\ [][NextCursor]_vars

\* The caller goes on calling read_event for as long as a call is possible.
SpecCursorFair == SpecCursor /\ WF_vars(NextCursor)

\* C40: the 16-bit child cursor never overflows or wraps: every call that
\* handles a child returns it under idx, the cursor value at the call, and
\* leaves the cursor one further, between 0 and the length of the list,
\* whatever length the header declares.
C40_CursorNeverWraps ==
    /\ [](last.kind # "Panic")
    /\ [](stack # << >> => Top.next <= Top.descriptors.len)
    /\ [][(stack # << >> /\ stack' # << >> /\ last'.kind = "OperatorHandled")
             => (last'.idx = Top.next /\ stack'[Len(stack')].next = Top.next + 1)]_vars

\* C37: whatever the resolved tree, the subset count and the byte source,
\* the caller who goes on calling read_event gets Eof or a failed call after
\* finitely many calls.
C37_Terminates ==
    <>(last.kind \in {"Eof", "Err", "Panic"})

\* The bytes a section declares: 8 for the indicator section, its length
\* field for the others.
Declared(wire) == IF wire.section = "Indicator" THEN 8 ELSE wire.length

\* C35: every section read that succeeds consumes the bytes its section
\* declares; after a successful HeaderSections::read the source stands
\* 8 + len1 + len2 + len3 bytes after the start of "BUFR", len2 counting only
\* when the optional section is announced, which is when it is read; and
\* len3 holds the descriptors and 0 or 1 byte of padding.
C35_HeaderBytes ==
    /\ [][header_read' # header_read =>
             header_read' - header_read = Declared(header_wire')]_vars
    /\ [](header_result = "Ok" =>
            /\ optional_section.read = identification_section.flags.has_optional_section
            /\ header_read = 8 + identification_section.section_length
                               + (IF optional_section.read
                                  THEN optional_section.section_length ELSE 0)
                               + data_description_section.section_length
            /\ data_description_section.section_length - 7
                 - 2 * Len(data_description_section.descriptors) \in {0, 1})

\* A header with an optional section and a padded data description section
\* has been read.
C35_Witness ==
    /\ header_result = "Ok"
    /\ optional_section.read
    /\ optional_section.section_length > 4
    /\ identification_section.section_length > 22
    /\ data_description_section.section_length = 12
    /\ header_read = 8 + 23 + 5 + 12

\* C31: the list column of a replication decoded in compressed mode with k
\* items in a message of N >= 1 subsets has N + 1 offsets, the i-th being
\* i * k, and the last one is the number of rows of each of its child columns.
C31_CompressedOffsets ==
    \A c \in {columns.built[i] : i \in DOMAIN columns.built} :
        LET N == data_spec.number_of_subsets
            offsets == c.column.offsets
            children == c.column.items.fields
        IN N >= 1 =>
              /\ Len(offsets) = N + 1
              /\ \A i \in 0..N : offsets[i + 1] = i * c.items
              /\ \A f \in DOMAIN children : children[f].val.values = offsets[N + 1]

\* The names and kinds of the fields of a subset, in order.
FieldKinds(subset) ==
    [i \in 1..Len(subset) |-> << subset[i].name, subset[i].val.k >>]

\* C32: in non-compressed mode, when the N >= 1 subsets yield the same field
\* names and kinds, the schema is the one the first subset gives; every
\* top-level scalar column holds N values; every top-level list column holds
\* N + 1 offsets that start at 0, the i-th difference being the number of
\* items of subset i.
C32_SubsetsAppended ==
    LET N == data_spec.number_of_subsets
        subsets == columns.subsets
        column(c) == columns.columns[c].val
        row(i, c) == subsets[i][Find(subsets[i], columns.columns[c].name)].val
    IN (/\ columns.result = "Ok"
        /\ ~data_spec.is_compressed
        /\ N >= 1
        /\ \A i \in DOMAIN subsets : FieldKinds(subsets[i]) = FieldKinds(subsets[1]))
       => /\ Len(subsets) = N
          /\ columns.schema =
                convert_column_data_to_arrow(
                    initialize_columns_from_subset(subsets[1]))
          /\ \A c \in DOMAIN columns.columns :
                /\ column(c).k = "Scalar" => column(c).values = N
                /\ column(c).k = "List" =>
                      /\ Len(column(c).offsets) = N + 1
                      /\ column(c).offsets[1] = 0
                      /\ \A i \in 1..N :
                            column(c).offsets[i + 1] - column(c).offsets[i]
                               = Len(row(i, c).items)

\* Two subsets have been appended: a scalar column holds two values, or a
\* list column holds the offsets of an empty list and of a list of two items.
C32_Witness ==
    /\ columns.result = "Ok"
    /\ ~data_spec.is_compressed
    /\ data_spec.number_of_subsets = 2
    /\ \E c \in DOMAIN columns.columns :
          /\ columns.columns[c].val.k = "List"
          /\ columns.columns[c].val.offsets = << 0, 0, 2 >>

\* No field of the schema, at any level, is a struct without fields or a
\* list whose item struct has no fields.
RECURSIVE NoEmptyStruct(_)
NoEmptyStruct(fields) ==
    \A i \in DOMAIN fields :
        LET ty == fields[i].ty
        IN CASE ty.k = "Struct" -> ty.fields # << >> /\ NoEmptyStruct(ty.fields)
             [] ty.k = "List" ->
                   ty.item.ty.fields # << >> /\ NoEmptyStruct(ty.item.ty.fields)
             [] OTHER -> TRUE

\* C33: the schema convert_to_arrow produces holds no empty struct column and
\* no list column whose item struct has no fields, at whatever nesting level.
C33_EmptyStructsElided ==
    columns.result = "Ok" => NoEmptyStruct(columns.schema)

=============================================================================
